---- MODULE Spec2Model ----
(***************************************************************************)
(* A model of the template subsystem of dtu-notes: course-type resolution, *)
(* variant selection, rendering, filename generation and manifest loading. *)
(*                                                                         *)
(* Representation of Rust values                                           *)
(*   String / &str  a sequence of chunks (TLA+ strings).  Text that the    *)
(*                  code processes character by character is written with  *)
(*                  one chunk per char (a char outside ASCII is written    *)
(*                  as its code point, U+00E9); text that is only compared *)
(*                  or copied is a single chunk.  "" is << >>, and          *)
(*                  concatenation (format!, push_str) is \o.               *)
(*   Option<T>      << >> for None, <<v>> for Some(v).                      *)
(*   Vec<T>         a sequence.                                            *)
(*   HashMap<K,V>   a function; its iteration order is not determined.     *)
(*   Result<T>      [ok |-> TRUE, value |-> v], [ok |-> FALSE, value |-> e].*)
(* A variable that holds the value returned by a function is << >> until   *)
(* the function has been called and <<v>> afterwards.                      *)
(***************************************************************************)
EXTENDS Integers, Sequences, FiniteSets, TLC

VARIABLES
    course_id,        \* &str argument of the resolver / filename functions
    pattern,          \* &str argument of matches_course_pattern
    matches_result,   \* value returned by matches_course_pattern
    configs,          \* &[TemplateConfig]: the loaded manifests, in load order
    fallback,         \* &str argument of resolve_course_type
    resolved,         \* value returned by resolve_course_type
    template_name,    \* &str argument of find_best_variant
    course_type,      \* &str argument of find_best_variant
    best_variant,     \* value returned by find_best_variant
    context,          \* TemplateContext
    template_type,    \* TemplateType
    installed_info,   \* what get_installed_template_info() finds on this machine
    rendered,         \* value returned by render_template
    definition,       \* TemplateDefinition selected for a render
    variant,          \* Option<TemplateVariant> selected for a render
    date,             \* Local::now().format("%Y-%m-%d")
    custom_title,     \* Option<&str> argument of generate_filename
    filename,         \* value returned by generate_filename
    input,            \* &str argument of sanitize_filename
    sanitized,        \* values returned by the two sanitize_filename functions
    disk,             \* the typst packages directory
    load_result,      \* value returned by load_template_configs
    packages,         \* value returned by find_all_template_packages
    available,        \* value returned by discover_templates
    preferred_package,\* Option<&str> argument of find_template_with_preference
    found,            \* values returned by find_template(_with_preference)
    template_statuses,\* value returned by check_template_status
    templates_dir,    \* the directory named by paths.templates_dir
    issues,           \* value returned by a validate_* function
    current_version,  \* env!("CARGO_PKG_VERSION") of the running build
    semester_format,  \* Config::semester_format
    year,             \* i32 argument of format_semester
    is_spring,        \* bool argument of format_semester
    semester,         \* value returned by format_semester
    earlier_result,   \* a value an earlier call of load_template_configs returned
    user_config,      \* config: &Config, the user's configuration
    notes_fs,         \* the directory tree below paths.notes_dir
    last_call,        \* the last command: its arguments, the tree before it, its result
    search_dir,       \* dir: the directory given to search_in_directory
    search_query,     \* query: &str
    search_options,   \* options: &SearchOptions
    search_results    \* value returned by search_in_directory

vars == <<course_id, pattern, matches_result, configs, fallback, resolved,
          template_name, course_type, best_variant, context, template_type,
          installed_info, rendered, definition, variant, date, custom_title,
          filename, input, sanitized, disk, load_result, packages, available,
          preferred_package, found, template_statuses, templates_dir, issues,
          current_version, semester_format, year, is_spring, semester,
          earlier_result, user_config, notes_fs, last_call, search_dir,
          search_query, search_options, search_results>>

matchVars    == <<pattern, matches_result>>
resolveVars  == <<fallback, resolved>>
variantVars  == <<template_name, course_type, best_variant>>
renderVars   == <<context, template_type, installed_info, rendered>>
sectionVars  == <<definition, variant>>
filenameVars == <<date, custom_title, filename>>
sanitizeVars == <<input, sanitized>>
loadVars     == <<disk, load_result>>
discoveryVars  == <<packages, available, preferred_package, found>>
detectVars     == <<template_statuses, templates_dir>>
validationVars == <<issues, current_version>>
semesterVars   == <<semester_format, year, is_spring, semester>>
fileVars       == <<user_config, notes_fs, last_call>>
searchVars     == <<search_dir, search_query, search_options, search_results>>
toolVars       == <<semesterVars, fileVars, searchVars>>
commandVars    == <<toolVars, earlier_result>>

-----------------------------------------------------------------------------
(* Generic helpers                                                         *)

None == << >>
Some(v) == <<v>>
IsSome(o) == o /= << >>
Unwrap(o) == o[1]

\* All sequences over S of length at most n.
SeqsUpTo(S, n) == UNION {[1..k -> S] : k \in 0..n}

Min(a, b) == IF a < b THEN a ELSE b

-----------------------------------------------------------------------------
(* Course Resolver: matches_course_pattern                                 *)

\* Longest string drawn for course ids and patterns of the matcher.
MaxPatternLen == 3

\* Chars the matcher is exercised on: digits, both wildcards, and one char
\* outside ASCII.
MatchAlphabet == {"0", "1", "x", "X", "U+00E9"}

\* The chars outside ASCII that the model draws, each written as its code
\* point: e-acute and the Nordic letters ae, o-slash, a-ring, a-umlaut,
\* o-umlaut in lower and upper case.
NordicA == {"U+00E6", "U+00C6", "U+00E5", "U+00C5", "U+00E4", "U+00C4"}
NordicO == {"U+00F8", "U+00D8", "U+00F6", "U+00D6"}
NonAscii == {"U+00E9"} \cup NordicA \cup NordicO

\* Number of bytes of the UTF-8 encoding of a char (what str::len counts).
Utf8Width(c) == IF c \in NonAscii THEN 2 ELSE 1

\* str::len(): the length in bytes.
RECURSIVE StrLen(_)
StrLen(s) == IF s = << >> THEN 0 ELSE Utf8Width(Head(s)) + StrLen(Tail(s))

\* .chars().zip(.chars()): pairs of chars up to the shorter char count.
ZipChars(a, b) == [i \in 1..Min(Len(a), Len(b)) |-> <<a[i], b[i]>>]

\* The closure |(c, p)| p == 'x' || p == 'X' || p == c.
PatternCharOk(c, p) == p = "x" \/ p = "X" \/ p = c

MatchesCoursePattern(id, pat) ==
    IF StrLen(id) /= StrLen(pat)
    THEN FALSE
    ELSE \A i \in 1..Len(ZipChars(id, pat)) :
            PatternCharOk(ZipChars(id, pat)[i][1], ZipChars(id, pat)[i][2])

-----------------------------------------------------------------------------
(* Template Package Store: the manifest types of core/template/config.rs   *)

\* Most manifests a specification loads at once.
MaxConfigs == 2

\* Most variants one manifest declares.
MaxVariants == 2

Lit(text) == <<text>>

TemplateMetadata(name, version) == [name |-> name, version |-> version]

TemplateVariant(template, name, course_types, additional, override) ==
    [template |-> template, name |-> name, course_types |-> course_types,
     additional_sections |-> additional, override_sections |-> override]

TemplateDefinition(name, file, function, supports_variants, course_types, default_sections) ==
    [name |-> name, file |-> file, function |-> function,
     supports_variants |-> supports_variants, course_types |-> course_types,
     default_sections |-> default_sections]

\* EngineConfig, reduced to the fields a validator reads.
EngineConfig(minimum_noter_version, timeout_seconds, max_concurrent) ==
    [compatibility |-> [minimum_noter_version |-> minimum_noter_version],
     rendering |-> [timeout_seconds |-> timeout_seconds,
                    max_concurrent |-> max_concurrent]]

TemplateConfig(metadata, templates, variants, course_mapping, engine) ==
    [metadata |-> metadata, templates |-> templates, variants |-> variants,
     course_mapping |-> course_mapping, engine |-> engine]

DtuMetadata == TemplateMetadata(Lit("dtu-template"), Lit("0.1.0"))

-----------------------------------------------------------------------------
(* Course Resolver: resolve_course_type                                    *)

\* One HashMap<String, String>: get for the exact key, then the entries
\* in the map's iteration order, which the program does not control; the
\* lookup yields the set of values the loop can return.  The field via records the
\* return statement that produced the value.
MappingLookup_PatternsFirst(m, id) ==
    {[value |-> m[p], via |-> "pattern"] :
        p \in {k \in DOMAIN m : MatchesCoursePattern(id, k)}}

MappingLookup(m, id) ==
    IF id \in DOMAIN m
    THEN {[value |-> m[id], via |-> "exact"]}
    ELSE {[value |-> m[p], via |-> "pattern"] :
            p \in {k \in DOMAIN m : MatchesCoursePattern(id, k)}}

\* The loop over configs, from index i on.
RECURSIVE ResolveFrom(_, _, _, _)
ResolveFrom(cfgs, i, id, fb) ==
    IF i > Len(cfgs)
    THEN {[value |-> fb, via |-> "fallback"]}
    ELSE IF cfgs[i].course_mapping = None
         THEN ResolveFrom(cfgs, i + 1, id, fb)
         ELSE IF MappingLookup(Unwrap(cfgs[i].course_mapping), id) /= {}
              THEN MappingLookup(Unwrap(cfgs[i].course_mapping), id)
              ELSE ResolveFrom(cfgs, i + 1, id, fb)

Reverse(s) == [i \in 1..Len(s) |-> s[Len(s) + 1 - i]]

ResolveCourseType_LastWins(cfgs, id, fb) == ResolveFrom(Reverse(cfgs), 1, id, fb)

ResolveCourseType(cfgs, id, fb) == ResolveFrom(cfgs, 1, id, fb)

-----------------------------------------------------------------------------
(* Template Discovery: find_variants_for_template, find_best_variant       *)

Contains(vec, x) == \E i \in DOMAIN vec : vec[i] = x

RECURSIVE VariantsFrom(_, _, _)
VariantsFrom(cfgs, i, name) ==
    IF i > Len(cfgs)
    THEN << >>
    ELSE LET ForTemplate(v) == v.template = name
         IN  (IF cfgs[i].variants = None
              THEN << >>
              ELSE SelectSeq(Unwrap(cfgs[i].variants), ForTemplate))
             \o VariantsFrom(cfgs, i + 1, name)

FindVariantsForTemplate(cfgs, name) == VariantsFrom(cfgs, 1, name)

\* The filter closure of find_best_variant.
VariantMatchesCourseType(v, ct) ==
    Contains(v.course_types, ct) \/ Contains(v.course_types, Lit("all"))

FindBestVariant_Last(cfgs, name, ct) ==
    LET Matching(v) == VariantMatchesCourseType(v, ct)
        matching_variants == SelectSeq(FindVariantsForTemplate(cfgs, name), Matching)
    IN  IF matching_variants = << >>
        THEN None
        ELSE Some(matching_variants[Len(matching_variants)])

FindBestVariant(cfgs, name, ct) ==
    LET Matching(v) == VariantMatchesCourseType(v, ct)
        matching_variants == SelectSeq(FindVariantsForTemplate(cfgs, name), Matching)
    IN  IF matching_variants = << >>
        THEN None
        ELSE Some(Head(matching_variants))

-----------------------------------------------------------------------------
(* Template Renderer: core/template_engine.rs                              *)

\* Longest section list drawn for a context, a definition or a variant.
MaxSections == 2

Ok(v) == [ok |-> TRUE, value |-> v]
Err(e) == [ok |-> FALSE, value |-> e]

Lecture == [kind |-> "Lecture", name |-> << >>]
Assignment == [kind |-> "Assignment", name |-> << >>]
Custom(name) == [kind |-> "Custom", name |-> name]

\* The template_name match of generate_typst_header.
HeaderTemplateName(tt) ==
    CASE tt.kind = "Lecture" -> Lit("dtu-note")
      [] tt.kind = "Assignment" -> Lit("dtu-assignment")
      [] tt.kind = "Custom" -> tt.name

\* The date_param match of generate_typst_header.
HeaderDateParam(tt) ==
    IF tt.kind = "Assignment" THEN Lit("due-date") ELSE Lit("date")

\* The course_name fallback of generate_typst_header.
HeaderCourseName_NoFallback(ctx) == ctx.course_name

HeaderCourseName(ctx) ==
    IF ctx.course_name = << >> THEN ctx.course_id ELSE ctx.course_name

\* determine_template_import: the installed package when detection finds
\* one, else "dtu-template" at the configured version.
DetermineTemplateImport(template_version, installed) ==
    LET info == IF IsSome(installed)
                THEN Unwrap(installed)
                ELSE <<Lit("dtu-template"), template_version>>
        import_statement == Lit("#import \"@local/") \o info[1] \o Lit(":")
                            \o info[2] \o Lit("\":")
    IN  Ok(import_statement \o Lit("*"))

GenerateTypstHeader(ctx, tt, installed) ==
    Ok(DetermineTemplateImport(ctx.template_version, installed).value
       \o Lit("\n\n#show: ") \o HeaderTemplateName(tt)
       \o Lit(".with(\n  course: \"") \o ctx.course_id
       \o Lit("\",\n  course-name: \"") \o HeaderCourseName(ctx)
       \o Lit("\",\n  title: \"") \o ctx.title
       \o Lit("\",\n  ") \o HeaderDateParam(tt)
       \o Lit(": datetime.today(),\n  author: \"") \o ctx.author
       \o Lit("\",\n  semester: \"") \o ctx.semester
       \o Lit("\"\n)"))

GenerateLectureSectionContent(section) ==
    CASE section = Lit("Examples") ->
            Lit("\n#example[\n  Insert example here...\n]\n")
      [] section = Lit("Important Points") ->
            Lit("\n#important[\n  Key takeaways from today's lecture\n]\n")
      [] section = Lit("Questions") ->
            Lit("\n#question[\n  What questions do I have about this topic?\n]\n")
      [] section = Lit("Summary") ->
            Lit("\n#summary[\n  Brief summary of the main concepts\n]\n")
      [] OTHER -> Lit("\n\n")

GenerateAssignmentSectionContent(section) ==
    CASE section = Lit("Problem Statement") ->
            Lit("\n#problem[\n  State the problem clearly\n]\n")
      [] section = Lit("Solution") ->
            Lit("\n#solution[\n  Step-by-step solution\n]\n")
      [] section = Lit("Analysis") ->
            Lit("\n#analysis[\n  Analysis of the results\n]\n")
      [] section = Lit("Conclusion") ->
            Lit("\n#conclusion[\n  Final conclusions and insights\n]\n")
      [] section = Lit("Code") ->    \* <fence> stands for three backquotes
            Lit("\n<fence>python\n# Insert code here\n<fence>\n")
      [] section = Lit("Calculations") ->
            Lit("\n$ \"Insert mathematical calculations here\" $\n")
      [] OTHER -> Lit("\n\n")

\* The match on template_type inside the loop of generate_sections.
SectionContent_CustomAsLecture(section, tt) ==
    CASE tt.kind = "Lecture" -> GenerateLectureSectionContent(section)
      [] tt.kind = "Assignment" -> GenerateAssignmentSectionContent(section)
      [] tt.kind = "Custom" -> GenerateLectureSectionContent(section)

SectionContent(section, tt) ==
    CASE tt.kind = "Lecture" -> GenerateLectureSectionContent(section)
      [] tt.kind = "Assignment" -> GenerateAssignmentSectionContent(section)
      [] tt.kind = "Custom" -> Lit("\n\n")

RECURSIVE SectionsFrom(_, _, _)
SectionsFrom(sections, i, tt) ==
    IF i > Len(sections)
    THEN << >>
    ELSE Lit("\n= ") \o sections[i] \o Lit("\n")
         \o SectionContent(sections[i], tt)
         \o SectionsFrom(sections, i + 1, tt)

GenerateSections(sections, tt) == Ok(SectionsFrom(sections, 1, tt))

RenderTemplate(ctx, tt, installed) ==
    Ok(GenerateTypstHeader(ctx, tt, installed).value
       \o Lit("\n")
       \o GenerateSections(ctx.sections, tt).value)

\* The section list a render uses when a variant is selected: the variant's
\* override_sections replace the definition's default_sections, else its
\* additional_sections are appended to them, else they are used as they are.
VariantSections_AppendWins(def, var) ==
    IF var = None
    THEN def.default_sections
    ELSE IF IsSome(Unwrap(var).additional_sections)
         THEN def.default_sections \o Unwrap(Unwrap(var).additional_sections)
         ELSE IF IsSome(Unwrap(var).override_sections)
              THEN Unwrap(Unwrap(var).override_sections)
              ELSE def.default_sections

VariantSections(def, var) ==
    IF var = None
    THEN def.default_sections
    ELSE IF IsSome(Unwrap(var).override_sections)
         THEN Unwrap(Unwrap(var).override_sections)
         ELSE IF IsSome(Unwrap(var).additional_sections)
              THEN def.default_sections \o Unwrap(Unwrap(var).additional_sections)
              ELSE def.default_sections

-----------------------------------------------------------------------------
(* Filename sanitization: Validator::sanitize_filename and                 *)
(* utils::sanitize_filename.  Strings are written one chunk per char.      *)

\* Longest title or raw input drawn for sanitize_filename.
MaxInputLen == 4

UpperCase == <<"A", "B", "C", "D", "E", "F", "G", "H", "I", "J", "K", "L", "M",
               "N", "O", "P", "Q", "R", "S", "T", "U", "V", "W", "X", "Y", "Z">>
LowerCase == <<"a", "b", "c", "d", "e", "f", "g", "h", "i", "j", "k", "l", "m",
               "n", "o", "p", "q", "r", "s", "t", "u", "v", "w", "x", "y", "z">>
Digits == {"0", "1", "2", "3", "4", "5", "6", "7", "8", "9"}
Range(f) == {f[i] : i \in DOMAIN f}

\* The match of the .map(|c| ...) closure.
SanitizeChar(c) ==
    CASE c \in Range(LowerCase) \cup Range(UpperCase) \cup Digits \cup {"-", "_"} -> c
      [] c \in NordicA -> "a"
      [] c \in NordicO -> "o"
      [] OTHER -> "-"

\* .chars().map(...).collect::<String>().
SanitizeChars(s) == [i \in DOMAIN s |-> SanitizeChar(s[i])]

\* str::split('-'): the pieces between dashes, empty pieces included; the
\* empty string splits into one empty piece.
RECURSIVE SplitDash(_)
SplitDash(s) ==
    IF \A i \in DOMAIN s : s[i] /= "-"
    THEN <<s>>
    ELSE LET d == CHOOSE i \in DOMAIN s : s[i] = "-" /\ \A j \in 1..(i - 1) : s[j] /= "-"
         IN  <<SubSeq(s, 1, d - 1)>> \o SplitDash(SubSeq(s, d + 1, Len(s)))

\* [T]::join("-").
RECURSIVE JoinDash(_)
JoinDash(pieces) ==
    IF pieces = << >>
    THEN << >>
    ELSE IF Len(pieces) = 1
         THEN pieces[1]
         ELSE pieces[1] \o <<"-">> \o JoinDash(Tail(pieces))

\* char::to_lowercase for the chars SanitizeChar lets through.
ToLowerChar(c) ==
    IF c \in Range(UpperCase)
    THEN LowerCase[CHOOSE i \in DOMAIN UpperCase : UpperCase[i] = c]
    ELSE c

\* String::to_lowercase.
ToLowercase(s) == [i \in DOMAIN s |-> ToLowerChar(s[i])]

RECURSIVE TrimEndDash(_)
TrimEndDash(s) ==
    IF s /= << >> /\ s[Len(s)] = "-" THEN TrimEndDash(SubSeq(s, 1, Len(s) - 1)) ELSE s

NonEmpty(piece) == piece /= << >>

\* A sanitize_filename without the .filter(|s| !s.is_empty()) step.
SanitizeFilename_NoFilter(s) ==
    TrimEndDash(ToLowercase(JoinDash(SplitDash(SanitizeChars(s)))))

\* Validator::sanitize_filename.
SanitizeFilename(s) ==
    TrimEndDash(ToLowercase(JoinDash(SelectSeq(SplitDash(SanitizeChars(s)), NonEmpty))))

\* utils::sanitize_filename.
UtilsSanitizeFilename(s) ==
    TrimEndDash(ToLowercase(JoinDash(SelectSeq(SplitDash(SanitizeChars(s)), NonEmpty))))

-----------------------------------------------------------------------------
(* Filename generation: TemplateEngine::generate_filename                  *)

LectureTyp == <<"-", "l", "e", "c", "t", "u", "r", "e", ".", "t", "y", "p">>
AssignmentTyp == <<"-", "a", "s", "s", "i", "g", "n", "m", "e", "n", "t", ".", "t", "y", "p">>
DotTyp == <<".", "t", "y", "p">>

\* A generate_filename that formats the title as it was given.
GenerateFilename_RawTitle(today, id, tt, title) ==
    CASE tt.kind = "Lecture" -> Ok(today \o <<"-">> \o id \o LectureTyp)
      [] tt.kind = "Assignment" ->
            IF IsSome(title)
            THEN Ok(today \o <<"-">> \o id \o <<"-">> \o Unwrap(title) \o DotTyp)
            ELSE Ok(today \o <<"-">> \o id \o AssignmentTyp)
      [] tt.kind = "Custom" ->
            Ok(today \o <<"-">> \o id \o <<"-">> \o SanitizeFilename(tt.name) \o DotTyp)

GenerateFilename(today, id, tt, title) ==
    CASE tt.kind = "Lecture" -> Ok(today \o <<"-">> \o id \o LectureTyp)
      [] tt.kind = "Assignment" ->
            IF IsSome(title)
            THEN Ok(today \o <<"-">> \o id \o <<"-">>
                    \o SanitizeFilename(Unwrap(title)) \o DotTyp)
            ELSE Ok(today \o <<"-">> \o id \o AssignmentTyp)
      [] tt.kind = "Custom" ->
            Ok(today \o <<"-">> \o id \o <<"-">> \o SanitizeFilename(tt.name) \o DotTyp)

-----------------------------------------------------------------------------
(* Template Discovery: the packages directory and load_template_configs    *)

\* Most packages installed side by side in the packages directory.
MaxPackages == 2

\* The largest number a version field holds.
MaxVersionNumber == 10

\* A manifest file is absent (None) or holds text that toml::from_str
\* either parses into a TemplateConfig or rejects.
ValidManifest(cfg) == Some([parses |-> TRUE, config |-> cfg])
CorruptManifest == Some([parses |-> FALSE, config |-> << >>])

\* An entry of the packages directory: its file name, whether it is a
\* directory, the manifest file directly inside it, the other files directly
\* inside it (a function from file name to content), and its own entries
\* (the version subdirectories), each of the same shape.
DirEntry(name, is_dir, manifest, files, versions) ==
    [name |-> name, is_dir |-> is_dir, manifest |-> manifest, files |-> files,
     versions |-> versions]

\* find_all_template_packages: the inner loop over one directory's entries.
RECURSIVE VersionPackages(_, _, _)
VersionPackages(parent, versions, j) ==
    IF j > Len(versions)
    THEN << >>
    ELSE (IF versions[j].is_dir /\ versions[j].manifest /= None
          THEN <<[path |-> <<parent, versions[j].name>>, manifest |-> versions[j].manifest]>>
          ELSE << >>)
         \o VersionPackages(parent, versions, j + 1)

\* A scan that reports only the immediate subdirectories.
RECURSIVE PackagesFrom_TopOnly(_, _)
PackagesFrom_TopOnly(entries, i) ==
    IF i > Len(entries)
    THEN << >>
    ELSE (IF entries[i].is_dir /\ entries[i].manifest /= None
          THEN <<[path |-> <<entries[i].name>>, manifest |-> entries[i].manifest]>>
          ELSE << >>)
         \o PackagesFrom_TopOnly(entries, i + 1)

\* find_all_template_packages: the outer loop, in read_dir order.
RECURSIVE PackagesFrom(_, _)
PackagesFrom(entries, i) ==
    IF i > Len(entries)
    THEN << >>
    ELSE (IF entries[i].is_dir
          THEN (IF entries[i].manifest /= None
                THEN <<[path |-> <<entries[i].name>>, manifest |-> entries[i].manifest]>>
                ELSE << >>)
               \o VersionPackages(entries[i].name, entries[i].versions, 1)
          ELSE << >>)
         \o PackagesFrom(entries, i + 1)

\* Each found package root is paired with the manifest file inside it.
FindAllTemplatePackages(d) ==
    IF ~d.exists THEN Ok(<< >>) ELSE Ok(PackagesFrom(d.entries, 1))

\* load_template_configs: the loop over the package roots; the first
\* manifest that does not parse ends the call with its error.
RECURSIVE LoadFrom(_, _, _)
LoadFrom(dirs, i, loaded) ==
    IF i > Len(dirs)
    THEN Ok(loaded)
    ELSE IF dirs[i].manifest = None
         THEN LoadFrom(dirs, i + 1, loaded)
         ELSE IF Unwrap(dirs[i].manifest).parses
              THEN LoadFrom(dirs, i + 1, Append(loaded, Unwrap(dirs[i].manifest).config))
              ELSE Err(<<"toml parse error", dirs[i].path>>)

\* A load that keeps what an earlier call returned.
LoadTemplateConfigs_Cached(d) ==
    IF earlier_result /= None
    THEN Unwrap(earlier_result)
    ELSE LoadFrom(FindAllTemplatePackages(d).value, 1, << >>)

LoadTemplateConfigs(d) == LoadFrom(FindAllTemplatePackages(d).value, 1, << >>)

-----------------------------------------------------------------------------
(* Template Discovery: discover_templates                                  *)

\* TOML_FILE_NAME, the manifest file name.
TomlFileName == Lit(".noter.config.toml")

\* Path::exists for a path below the packages directory, given as the
\* sequence of its components.
RECURSIVE ExistsIn(_, _)
ExistsIn(entries, p) ==
    \E i \in DOMAIN entries :
        /\ entries[i].name = p[1]
        /\ \/ Len(p) = 1
           \/ /\ entries[i].is_dir
              /\ \/ Len(p) = 2 /\ p[2] \in DOMAIN entries[i].files
                 \/ Len(p) = 2 /\ p[2] = TomlFileName /\ entries[i].manifest /= None
                 \/ ExistsIn(entries[i].versions, Tail(p))
PathExists(d, p) == d.exists /\ ExistsIn(d.entries, p)

\* find_package_directory_for_config: the loop that looks for the package
\* root whose manifest parses and carries the target's name and version.
RECURSIVE MatchingDirFrom(_, _, _)
MatchingDirFrom(dirs, i, target_config) ==
    IF i > Len(dirs)
    THEN None
    ELSE IF /\ dirs[i].manifest /= None
            /\ Unwrap(dirs[i].manifest).parses
            /\ Unwrap(dirs[i].manifest).config.metadata.name
                 = target_config.metadata.name
            /\ Unwrap(dirs[i].manifest).config.metadata.version
                 = target_config.metadata.version
         THEN Some(dirs[i].path)
         ELSE MatchingDirFrom(dirs, i + 1, target_config)

FindPackageDirectoryForConfig(d, target_config) ==
    LET package_dirs == FindAllTemplatePackages(d).value
        hit == MatchingDirFrom(package_dirs, 1, target_config)
    IN  IF IsSome(hit)
        THEN Ok(Unwrap(hit))
        ELSE IF package_dirs = << >>
             THEN Err(Lit("No template packages found"))
             ELSE Ok(package_dirs[1].path)

ExtractPackageInfo(config, package_dir) ==
    [name |-> config.metadata.name, version |-> config.metadata.version,
     install_path |-> package_dir]

AvailableTemplate(definition_, variants, file_path, source, is_accessible, package_info) ==
    [definition |-> definition_, variants |-> variants, file_path |-> file_path,
     source |-> source, is_accessible |-> is_accessible,
     package_info |-> package_info]

\* discover_templates: the templates of one manifest.
AvailableOf(d, cfgs, config, package_dir) ==
    [j \in DOMAIN config.templates |->
        LET template_def == config.templates[j]
            file_path == package_dir \o <<template_def.file>>
        IN  AvailableTemplate(template_def,
                              FindVariantsForTemplate(cfgs, template_def.name),
                              file_path,
                              [local |-> package_dir],
                              PathExists(d, file_path),
                              Some(ExtractPackageInfo(config, package_dir)))]

\* discover_templates: the loop over the loaded manifests.
RECURSIVE AvailableFrom(_, _, _, _)
AvailableFrom(d, cfgs, i, available_templates) ==
    IF i > Len(cfgs)
    THEN Ok(available_templates)
    ELSE LET package_dir == FindPackageDirectoryForConfig(d, cfgs[i])
         IN  IF ~package_dir.ok
             THEN package_dir
             ELSE AvailableFrom(d, cfgs, i + 1,
                                available_templates
                                \o AvailableOf(d, cfgs, cfgs[i], package_dir.value))

DiscoverTemplates(d) ==
    LET loaded == LoadTemplateConfigs(d)
    IN  IF ~loaded.ok THEN loaded ELSE AvailableFrom(d, loaded.value, 1, << >>)

-----------------------------------------------------------------------------
(* Template Discovery: find_template and find_template_with_preference     *)

\* The pair (&TemplateDefinition, &TemplateConfig) that the finders return:
\* the two values, and the places in configs the references point to.
TemplateRef(cfgs, i, j) ==
    [definition |-> cfgs[i].templates[j], config |-> cfgs[i],
     config_index |-> i, template_index |-> j]

\* The inner loop over config.templates: the index of the first template
\* named name at or after j, or 0.
RECURSIVE TemplateIndexFrom(_, _, _)
TemplateIndexFrom(templates, j, name) ==
    IF j > Len(templates)
    THEN 0
    ELSE IF templates[j].name = name
         THEN j
         ELSE TemplateIndexFrom(templates, j + 1, name)

\* A finder that keeps the last match instead of returning the first.
RECURSIVE FindTemplateFrom_Last(_, _, _)
FindTemplateFrom_Last(cfgs, i, name) ==
    IF i > Len(cfgs)
    THEN None
    ELSE LET later == FindTemplateFrom_Last(cfgs, i + 1, name)
             j == TemplateIndexFrom(cfgs[i].templates, 1, name)
         IN  IF IsSome(later) THEN later
             ELSE IF j /= 0 THEN Some(TemplateRef(cfgs, i, j)) ELSE None

\* find_template: the outer loop over configs.
RECURSIVE FindTemplateFrom(_, _, _)
FindTemplateFrom(cfgs, i, name) ==
    IF i > Len(cfgs)
    THEN None
    ELSE LET j == TemplateIndexFrom(cfgs[i].templates, 1, name)
         IN  IF j /= 0
             THEN Some(TemplateRef(cfgs, i, j))
             ELSE FindTemplateFrom(cfgs, i + 1, name)

FindTemplate(cfgs, name) == FindTemplateFrom(cfgs, 1, name)

\* find_template_with_preference: the loop over the configs of the
\* preferred package.
RECURSIVE FindInPackageFrom(_, _, _, _)
FindInPackageFrom(cfgs, i, name, package_name) ==
    IF i > Len(cfgs)
    THEN None
    ELSE LET j == IF cfgs[i].metadata.name = package_name
                  THEN TemplateIndexFrom(cfgs[i].templates, 1, name)
                  ELSE 0
         IN  IF j /= 0
             THEN Some(TemplateRef(cfgs, i, j))
             ELSE FindInPackageFrom(cfgs, i + 1, name, package_name)

\* A finder that ignores the preferred package.
FindTemplateWithPreference_Ignored(cfgs, name, preferred) == FindTemplate(cfgs, name)

FindTemplateWithPreference(cfgs, name, preferred) ==
    LET in_package == IF IsSome(preferred)
                      THEN FindInPackageFrom(cfgs, 1, name, Unwrap(preferred))
                      ELSE None
    IN  IF IsSome(in_package) THEN in_package ELSE FindTemplate(cfgs, name)

-----------------------------------------------------------------------------
(* Template Renderer: get_installed_template_info                          *)

\* normalize_package_name: '_' becomes '-', then to_lowercase.
NormalizePackageName(name) ==
    ToLowercase([i \in DOMAIN name |-> IF name[i] = "_" THEN "-" ELSE name[i]])

\* The text of a typst.toml is a sequence of lines and a line a sequence of
\* tokens: a key or value word, "=", a quote, or a blank.
TypstTomlName == Lit("typst.toml")
Blank == " "

\* str::trim and str::trim_matches(c) on a line.
RECURSIVE TrimStartMatches(_, _)
TrimStartMatches(s, c) ==
    IF s /= << >> /\ Head(s) = c THEN TrimStartMatches(Tail(s), c) ELSE s
RECURSIVE TrimEndMatches(_, _)
TrimEndMatches(s, c) ==
    IF s /= << >> /\ s[Len(s)] = c
    THEN TrimEndMatches(SubSeq(s, 1, Len(s) - 1), c)
    ELSE s
TrimMatches(s, c) == TrimEndMatches(TrimStartMatches(s, c), c)
Trim(s) == TrimMatches(s, Blank)

\* str::find('='): the index of the first "=", or 0.
FindEquals(line) ==
    IF \E i \in DOMAIN line : line[i] = "="
    THEN CHOOSE i \in DOMAIN line : line[i] = "=" /\ \A j \in 1..(i - 1) : line[j] /= "="
    ELSE 0

\* read_version_from_toml: the loop over content.lines().
RECURSIVE VersionFromLines(_, _)
VersionFromLines(lines, i) ==
    IF i > Len(lines)
    THEN None
    ELSE LET line == Trim(lines[i])
             equals_pos == FindEquals(line)
             version_part == Trim(SubSeq(line, equals_pos + 1, Len(line)))
             version == Trim(TrimMatches(TrimMatches(version_part, "\""), "'"))
         IN  IF line /= << >> /\ Head(line) = "version" /\ equals_pos /= 0
                /\ version /= << >>
             THEN Some(version)
             ELSE VersionFromLines(lines, i + 1)

\* read_version_from_toml, for one entry of a directory.
ReadVersionFromToml(entry) ==
    IF TypstTomlName \notin DOMAIN entry.files
    THEN None
    ELSE VersionFromLines(entry.files[TypstTomlName], 1)

\* find_template_in_directory: the loop over read_dir.
RECURSIVE TemplateInEntries(_, _)
TemplateInEntries(entries, i) ==
    IF i > Len(entries)
    THEN None
    ELSE IF entries[i].is_dir /\ IsSome(ReadVersionFromToml(entries[i]))
         THEN Some(<<entries[i].name, Unwrap(ReadVersionFromToml(entries[i]))>>)
         ELSE TemplateInEntries(entries, i + 1)

FindTemplateInDirectory(dir) ==
    IF ~dir.exists THEN None ELSE TemplateInEntries(dir.entries, 1)

\* read_template_info_from_files: the packages directory, then the
\* templates directory.
ReadTemplateInfoFromFiles(env, packages_dir, template_dir) ==
    IF ~env.get_config
    THEN None
    ELSE IF IsSome(FindTemplateInDirectory(packages_dir))
         THEN FindTemplateInDirectory(packages_dir)
         ELSE FindTemplateInDirectory(template_dir)

\* get_installed_template_info: the loop over the template statuses.
RECURSIVE FirstInstalledStatus(_, _)
FirstInstalledStatus(statuses, i) ==
    IF i > Len(statuses)
    THEN None
    ELSE IF IsSome(statuses[i][2])
         THEN Some(<<NormalizePackageName(statuses[i][1]), Unwrap(statuses[i][2])>>)
         ELSE FirstInstalledStatus(statuses, i + 1)

\* A detection that never looks at the installed packages.
GetInstalledTemplateInfo_Blind(env, packages_dir, template_dir) == None

\* env holds what the two collaborators return: whether get_config
\* succeeds, and the result of check_template_status.
GetInstalledTemplateInfo(env, packages_dir, template_dir) ==
    LET from_status == IF env.get_config /\ env.check_template_status.ok
                       THEN FirstInstalledStatus(env.check_template_status.value, 1)
                       ELSE None
    IN  IF IsSome(from_status)
        THEN from_status
        ELSE ReadTemplateInfoFromFiles(env, packages_dir, template_dir)

-----------------------------------------------------------------------------
(* Validator: core/template/validation.rs                                  *)

\* ValidationSeverity.
Error == "Error"
Warning == "Warning"
Info == "Info"

\* ValidationIssue; its suggestion, a fixed text per check, is left out.
ValidationIssue(severity, category, message, location) ==
    [severity |-> severity, category |-> category, message |-> message,
     location |-> location]

\* if cond { issues.push(issue) }
PushIf(cond, issue) == IF cond THEN <<issue>> ELSE << >>

\* for issue in &mut issues { issue.location = Some(location) }
Relocate(issue_list, location) ==
    [k \in DOMAIN issue_list |-> [issue_list[k] EXCEPT !.location = Some(location)]]

\* format!("{}[{}]", what, index) for the index of .iter().enumerate().
Indexed(what, index) == <<what, "[", ToString(index), "]">>

\* s.trim().is_empty(), for a text whose blanks are chunks of their own.
TrimIsEmpty(s) == Trim(s) = << >>

\* A version is written as its tokens: numbers and the separators "." and
\* "-"; a number is written without leading zeros.
Numerals == {ToString(n) : n \in 0..MaxVersionNumber}

\* semver::Version::parse(v).is_ok(): MAJOR "." MINOR "." PATCH, and
\* optionally "-" and one numeric pre-release identifier.
IsSemver(v) ==
    /\ Len(v) \in {5, 7}
    /\ v[1] \in Numerals /\ v[3] \in Numerals /\ v[5] \in Numerals
    /\ v[2] = "." /\ v[4] = "."
    /\ Len(v) = 7 => v[6] = "-" /\ v[7] \in Numerals

\* The number a numeral stands for.
DigitValue(c) == CHOOSE n \in 0..MaxVersionNumber : ToString(n) = c
\* An order that looks at major and minor only.
SemverLess_MajorMinor(a, b) ==
    \/ DigitValue(a[1]) < DigitValue(b[1])
    \/ DigitValue(a[1]) = DigitValue(b[1]) /\ DigitValue(a[3]) < DigitValue(b[3])
\* The order of semver::Version: major, minor and patch as numbers, then a
\* version with a pre-release before the same version without one, and two
\* numeric pre-release identifiers as numbers.
SemverLess(a, b) ==
    LET x == <<DigitValue(a[1]), DigitValue(a[3]), DigitValue(a[5])>>
        y == <<DigitValue(b[1]), DigitValue(b[3]), DigitValue(b[5])>>
    IN  \/ x[1] < y[1]
        \/ x[1] = y[1] /\ x[2] < y[2]
        \/ x[1] = y[1] /\ x[2] = y[2] /\ x[3] < y[3]
        \/ /\ x = y
           /\ Len(a) = 7
           /\ Len(b) = 7 => DigitValue(a[7]) < DigitValue(b[7])

\* A validate_metadata that reports a missing package name as a warning.
ValidateMetadata_NameWarning(metadata) ==
    PushIf(TrimIsEmpty(metadata.name),
           ValidationIssue(Warning, "metadata", Lit("Template package name is required"),
                           Some(Lit("metadata.name"))))
    \o PushIf(TrimIsEmpty(metadata.version),
              ValidationIssue(Error, "metadata",
                              Lit("Template package version is required"),
                              Some(Lit("metadata.version"))))
    \o PushIf(~IsSemver(metadata.version),
              ValidationIssue(Warning, "metadata",
                              Lit("Version '") \o metadata.version
                              \o Lit("' is not a valid semantic version"),
                              Some(Lit("metadata.version"))))

ValidateMetadata(metadata) ==
    PushIf(TrimIsEmpty(metadata.name),
           ValidationIssue(Error, "metadata", Lit("Template package name is required"),
                           Some(Lit("metadata.name"))))
    \o PushIf(TrimIsEmpty(metadata.version),
              ValidationIssue(Error, "metadata",
                              Lit("Template package version is required"),
                              Some(Lit("metadata.version"))))
    \o PushIf(~IsSemver(metadata.version),
              ValidationIssue(Warning, "metadata",
                              Lit("Version '") \o metadata.version
                              \o Lit("' is not a valid semantic version"),
                              Some(Lit("metadata.version"))))

\* template.file.ends_with(".typ"), for a file name whose extension is a
\* chunk of its own.
EndsWithTyp(file) == file /= << >> /\ file[Len(file)] = ".typ"

\* validate_template_definition: the loop over course_types.
EmptyCourseTypeIssues(course_types) ==
    LET Empty(ct) == TrimIsEmpty(ct)
    IN  [k \in DOMAIN SelectSeq(course_types, Empty) |->
            ValidationIssue(Warning, "template", Lit("Empty course type found"),
                            Some(Lit("course_types")))]

ValidateTemplateDefinition(template) ==
    Ok(PushIf(TrimIsEmpty(template.name),
              ValidationIssue(Error, "template", Lit("Template name is required"),
                              Some(Lit("name"))))
       \o PushIf(TrimIsEmpty(template.file),
                 ValidationIssue(Error, "template", Lit("Template file path is required"),
                                 Some(Lit("file"))))
       \o PushIf(TrimIsEmpty(template.function),
                 ValidationIssue(Error, "template",
                                 Lit("Template function name is required"),
                                 Some(Lit("function"))))
       \o PushIf(~EndsWithTyp(template.file),
                 ValidationIssue(Warning, "template",
                                 Lit("Template file '") \o template.file
                                 \o Lit("' should have .typ extension"),
                                 Some(Lit("file"))))
       \o (IF IsSome(template.course_types)
           THEN EmptyCourseTypeIssues(Unwrap(template.course_types))
           ELSE << >>))

ValidateTemplateVariant(variant_, templates) ==
    LET base_template_exists ==
            \E k \in DOMAIN templates : templates[k].name = variant_.template
    IN  Ok(PushIf(~base_template_exists,
                  ValidationIssue(Error, "variant",
                                  Lit("Base template '") \o variant_.template
                                  \o Lit("' not found"),
                                  Some(Lit("template"))))
           \o PushIf(TrimIsEmpty(variant_.name),
                     ValidationIssue(Error, "variant", Lit("Variant name is required"),
                                     Some(Lit("name"))))
           \o PushIf(variant_.course_types = << >>,
                     ValidationIssue(Warning, "variant",
                                     Lit("Variant should specify course types"),
                                     Some(Lit("course_types")))))

\* pattern.contains("xxx") and pattern.ends_with("xxx"), for a pattern
\* written one chunk per char.
ContainsXxx(p) ==
    \E i \in 1..(Len(p) - 2) : p[i] = "x" /\ p[i + 1] = "x" /\ p[i + 2] = "x"
EndsWithXxx(p) ==
    Len(p) >= 3 /\ p[Len(p) - 2] = "x" /\ p[Len(p) - 1] = "x" /\ p[Len(p)] = "x"

\* validate_course_mapping: the body of the loop, for one entry.
MappingEntryIssues(pattern_, course_type_) ==
    PushIf(TrimIsEmpty(pattern_),
           ValidationIssue(Warning, "course_mapping", Lit("Empty course pattern found"),
                           None))
    \o PushIf(TrimIsEmpty(course_type_),
              ValidationIssue(Warning, "course_mapping",
                              Lit("Empty course type for pattern '") \o pattern_
                              \o Lit("'"),
                              None))
    \o PushIf(ContainsXxx(pattern_) /\ ~EndsWithXxx(pattern_),
              ValidationIssue(Info, "course_mapping",
                              Lit("Pattern '") \o pattern_ \o Lit("' might be malformed"),
                              None))

\* The orders in which a HashMap with the keys S can be iterated.
KeyOrders(S) ==
    {o \in [1..Cardinality(S) -> S] : \A i, j \in DOMAIN o : o[i] = o[j] => i = j}

RECURSIVE MappingIssuesIn(_, _, _)
MappingIssuesIn(mapping, order, i) ==
    IF i > Len(order)
    THEN << >>
    ELSE MappingEntryIssues(order[i], mapping[order[i]])
         \o MappingIssuesIn(mapping, order, i + 1)

\* validate_course_mapping: one issue list per iteration order.
ValidateCourseMapping(mapping) ==
    {MappingIssuesIn(mapping, order, 1) : order \in KeyOrders(DOMAIN mapping)}

ValidateEngineConfig(engine) ==
    Ok(PushIf(~IsSemver(engine.compatibility.minimum_noter_version),
              ValidationIssue(Warning, "engine",
                              Lit("Invalid minimum_noter_version: ")
                              \o engine.compatibility.minimum_noter_version,
                              Some(Lit("compatibility.minimum_noter_version"))))
       \o PushIf(engine.rendering.timeout_seconds = 0,
                 ValidationIssue(Warning, "engine",
                                 Lit("Rendering timeout is set to 0 seconds"),
                                 Some(Lit("rendering.timeout_seconds"))))
       \o PushIf(engine.rendering.max_concurrent = 0,
                 ValidationIssue(Warning, "engine",
                                 Lit("Max concurrent processing is set to 0"),
                                 Some(Lit("rendering.max_concurrent")))))

\* validate_template_config: the loop over config.templates.
RECURSIVE TemplateIssuesFrom(_, _)
TemplateIssuesFrom(templates, i) ==
    IF i > Len(templates)
    THEN << >>
    ELSE Relocate(ValidateTemplateDefinition(templates[i]).value,
                  Indexed("templates", i - 1))
         \o TemplateIssuesFrom(templates, i + 1)

\* validate_template_config: the loop over the variants.
RECURSIVE VariantIssuesFrom(_, _, _)
VariantIssuesFrom(variants, templates, i) ==
    IF i > Len(variants)
    THEN << >>
    ELSE Relocate(ValidateTemplateVariant(variants[i], templates).value,
                  Indexed("variants", i - 1))
         \o VariantIssuesFrom(variants, templates, i + 1)

\* A validate_template_config that returns at the first check that found
\* something.
ValidateTemplateConfig_FailFast(config) ==
    IF ValidateMetadata(config.metadata) /= << >>
    THEN {Ok(ValidateMetadata(config.metadata))}
    ELSE IF TemplateIssuesFrom(config.templates, 1) /= << >>
         THEN {Ok(TemplateIssuesFrom(config.templates, 1))}
         ELSE {Ok(IF IsSome(config.variants)
                  THEN VariantIssuesFrom(Unwrap(config.variants), config.templates, 1)
                  ELSE << >>)}

\* validate_template_config: one result per iteration order of the course
\* mapping.
ValidateTemplateConfig(config) ==
    {Ok(ValidateMetadata(config.metadata)
        \o TemplateIssuesFrom(config.templates, 1)
        \o (IF IsSome(config.variants)
            THEN VariantIssuesFrom(Unwrap(config.variants), config.templates, 1)
            ELSE << >>)
        \o mapping_issues
        \o (IF IsSome(config.engine)
            THEN ValidateEngineConfig(Unwrap(config.engine)).value
            ELSE << >>)) :
       mapping_issues \in IF IsSome(config.course_mapping)
                          THEN ValidateCourseMapping(Unwrap(config.course_mapping))
                          ELSE {<< >>}}

\* validate_cross_configurations: the nested loops; template_names is the
\* HashMap from a template name to the index of the first config seen with
\* it, held as a set of <<name, index>> pairs.
RECURSIVE CrossIssuesFrom(_, _, _, _)
CrossIssuesFrom(cfgs, i, j, template_names) ==
    IF i > Len(cfgs)
    THEN << >>
    ELSE IF j > Len(cfgs[i].templates)
         THEN CrossIssuesFrom(cfgs, i + 1, 1, template_names)
         ELSE LET name == cfgs[i].templates[j].name
                  seen == {p \in template_names : p[1] = name}
              IN  IF seen /= {}
                  THEN <<ValidationIssue(
                           Warning, "cross_config",
                           Lit("Template '") \o name
                           \o Lit("' is defined in multiple configurations (config ")
                           \o <<ToString((CHOOSE p \in seen : TRUE)[2])>>
                           \o Lit(" and ") \o <<ToString(i - 1)>> \o Lit(")"),
                           Some(Lit("template.") \o name))>>
                       \o CrossIssuesFrom(cfgs, i, j + 1, template_names)
                  ELSE CrossIssuesFrom(cfgs, i, j + 1,
                                       template_names \cup {<<name, i - 1>>})

\* A cross-configuration check that reports nothing.
ValidateCrossConfigurations_Silent(cfgs) == Ok(<< >>)

ValidateCrossConfigurations(cfgs) == Ok(CrossIssuesFrom(cfgs, 1, 1, {}))

\* config.paths.templates_dir and config.paths.typst_packages_dir.
TemplatesDirPath == Lit("templates")
TypstPackagesDirPath == Lit("packages")

ValidateFileSystem(template_dir, packages_dir) ==
    Ok(PushIf(~template_dir.exists,
              ValidationIssue(Warning, "file_system",
                              Lit("Template directory does not exist: ")
                              \o TemplatesDirPath,
                              Some(Lit("paths.templates_dir"))))
       \o PushIf(~packages_dir.exists,
                 ValidationIssue(Info, "file_system",
                                 Lit("Typst packages directory does not exist: ")
                                 \o TypstPackagesDirPath,
                                 Some(Lit("paths.typst_packages_dir")))))

\* validate_engine_compatibility: the loop over the loaded configs.
RECURSIVE CompatibilityIssuesFrom(_, _, _)
CompatibilityIssuesFrom(cfgs, current, i) ==
    IF i > Len(cfgs)
    THEN << >>
    ELSE (IF /\ IsSome(cfgs[i].engine)
             /\ IsSemver(current)
             /\ IsSemver(Unwrap(cfgs[i].engine).compatibility.minimum_noter_version)
             /\ SemverLess(current,
                           Unwrap(cfgs[i].engine).compatibility.minimum_noter_version)
          THEN <<ValidationIssue(
                   Error, "compatibility",
                   Lit("Template '") \o cfgs[i].metadata.name
                   \o Lit("' requires noter version ")
                   \o Unwrap(cfgs[i].engine).compatibility.minimum_noter_version
                   \o Lit(" but current is ") \o current,
                   None)>>
          ELSE << >>)
         \o CompatibilityIssuesFrom(cfgs, current, i + 1)

ValidateEngineCompatibility(packages_dir, current) ==
    IF LoadTemplateConfigs(packages_dir).ok
    THEN Ok(CompatibilityIssuesFrom(LoadTemplateConfigs(packages_dir).value, current, 1))
    ELSE Ok(<< >>)

\* validate_system: the loop over the loaded configs; one list per choice
\* of the iteration orders.
RECURSIVE SystemConfigIssuesFrom(_, _)
SystemConfigIssuesFrom(cfgs, i) ==
    IF i > Len(cfgs)
    THEN {<< >>}
    ELSE {Relocate(config_issues.value, Indexed("template_config", i - 1)) \o rest :
            config_issues \in ValidateTemplateConfig(cfgs[i]),
            rest \in SystemConfigIssuesFrom(cfgs, i + 1)}

\* validate_system: the match on the result of load_template_configs.
ConfigurationIssues(loaded) ==
    IF loaded.ok
    THEN {per_config \o ValidateCrossConfigurations(loaded.value).value :
            per_config \in SystemConfigIssuesFrom(loaded.value, 1)}
    ELSE {<<ValidationIssue(Error, "configuration",
                            Lit("Failed to load template configurations: ")
                            \o <<loaded.value[1]>>,
                            None)>>}

\* A validate_system that hands a load failure to its caller.
ValidateSystem_Propagate(packages_dir, template_dir, current) ==
    IF ~LoadTemplateConfigs(packages_dir).ok
    THEN {LoadTemplateConfigs(packages_dir)}
    ELSE {Ok(c \o ValidateFileSystem(template_dir, packages_dir).value
             \o ValidateEngineCompatibility(packages_dir, current).value) :
            c \in ConfigurationIssues(LoadTemplateConfigs(packages_dir))}

ValidateSystem(packages_dir, template_dir, current) ==
    {Ok(c \o ValidateFileSystem(template_dir, packages_dir).value
        \o ValidateEngineCompatibility(packages_dir, current).value) :
       c \in ConfigurationIssues(LoadTemplateConfigs(packages_dir))}

\* validate_context_variables: the loop over the builtin variables.
RECURSIVE ContextVariableIssuesFrom(_, _, _)
ContextVariableIssuesFrom(ctx, variable_config, i) ==
    IF i > Len(variable_config.builtin_variables)
    THEN << >>
    ELSE LET required_var == variable_config.builtin_variables[i]
         IN  PushIf(required_var \notin DOMAIN ctx.variables,
                    ValidationIssue(IF variable_config.allow_undefined
                                    THEN Warning
                                    ELSE Error,
                                    "variables",
                                    Lit("Required variable '") \o required_var
                                    \o Lit("' is missing"),
                                    Some(Lit("variables.") \o required_var)))
             \o ContextVariableIssuesFrom(ctx, variable_config, i + 1)

ValidateContextVariables(ctx, variable_config) ==
    ContextVariableIssuesFrom(ctx, variable_config, 1)

ValidateTemplateSections(template_def, variant_, ctx) ==
    PushIf(template_def.default_sections = << >> /\ ctx.sections = << >>,
           ValidationIssue(Info, "sections",
                           Lit("Template '") \o template_def.name
                           \o Lit("' has no default sections"),
                           Some(Lit("context.sections"))))
    \o PushIf(/\ IsSome(variant_)
              /\ IsSome(Unwrap(variant_).override_sections)
              /\ Unwrap(Unwrap(variant_).override_sections) = << >>,
              ValidationIssue(Warning, "sections",
                              Lit("Variant '") \o Unwrap(variant_).name
                              \o Lit("' has empty override_sections"),
                              Some(Lit("variant.override_sections"))))

\* str::split(','), for a text whose commas are chunks of their own.
RECURSIVE SplitComma(_)
SplitComma(s) ==
    IF \E i \in DOMAIN s : s[i] = ","
    THEN LET i == CHOOSE k \in DOMAIN s : s[k] = "," /\ \A j \in 1..(k - 1) : s[j] /= ","
         IN  <<SubSeq(s, 1, i - 1)>> \o SplitComma(SubSeq(s, i + 1, Len(s)))
    ELSE <<s>>

\* apply_custom_validation_rule, RequiredVariables: the loop over the names.
RECURSIVE RequiredVariableIssuesFrom(_, _, _, _)
RequiredVariableIssuesFrom(rule, ctx, vars_, i) ==
    IF i > Len(vars_)
    THEN << >>
    ELSE PushIf(Trim(vars_[i]) \notin DOMAIN ctx.variables,
                ValidationIssue(Error, "custom_rule", rule.error_message,
                                Some(Lit("variables.") \o Trim(vars_[i]))))
         \o RequiredVariableIssuesFrom(rule, ctx, vars_, i + 1)

\* apply_custom_validation_rule. A regex is held as the set of the texts it
\* matches, or None when Regex::new rejects it.
ApplyCustomValidationRule(rule, ctx, template_def) ==
    CASE rule.rule_type = "RequiredVariables" ->
           Ok(IF Lit("variables") \in DOMAIN rule.parameters
              THEN RequiredVariableIssuesFrom(
                       rule, ctx, SplitComma(rule.parameters[Lit("variables")]), 1)
              ELSE << >>)
      [] rule.rule_type = "VariablePattern" ->
           Ok(IF /\ Lit("variable") \in DOMAIN rule.parameters
                 /\ Lit("pattern") \in DOMAIN rule.parameters
                 /\ rule.parameters[Lit("variable")] \in DOMAIN ctx.variables
                 /\ IsSome(rule.regex)
                 /\ ctx.variables[rule.parameters[Lit("variable")]] \notin Unwrap(rule.regex)
              THEN <<ValidationIssue(Warning, "custom_rule", rule.error_message,
                                     Some(Lit("variables.")
                                          \o rule.parameters[Lit("variable")]))>>
              ELSE << >>)
      [] OTHER -> Ok(<< >>)

\* validate_template_context: the loop over the custom rules.
RECURSIVE CustomRuleIssuesFrom(_, _, _, _)
CustomRuleIssuesFrom(rules, ctx, template_def, i) ==
    IF i > Len(rules)
    THEN << >>
    ELSE ApplyCustomValidationRule(rules[i], ctx, template_def).value
         \o CustomRuleIssuesFrom(rules, ctx, template_def, i + 1)

ValidateTemplateContext(ctx, template_def, variant_) ==
    Ok(PushIf(TrimIsEmpty(ctx.author),
              ValidationIssue(Warning, "context", Lit("Author name is empty"),
                              Some(Lit("context.author"))))
       \o PushIf(TrimIsEmpty(ctx.course_id),
                 ValidationIssue(Error, "context", Lit("Course ID is required"),
                                 Some(Lit("context.course_id"))))
       \o PushIf(TrimIsEmpty(ctx.course_name),
                 ValidationIssue(Warning, "context",
                                 Lit("Course name not found for ") \o ctx.course_id,
                                 Some(Lit("context.course_name"))))
       \o (IF ctx.engine_config.validation.validate_variables
           THEN ValidateContextVariables(ctx, ctx.engine_config.variables)
           ELSE << >>)
       \o ValidateTemplateSections(template_def, variant_, ctx)
       \o CustomRuleIssuesFrom(ctx.engine_config.validation.custom_rules, ctx,
                               template_def, 1))

-----------------------------------------------------------------------------
(* Config: format_semester                                                 *)

\* A text of format_semester is the sequence of its characters.

\* i32 % on a positive divisor: the remainder has the sign of the dividend.
RemI32(a, b) == IF a >= 0 THEN a % b ELSE 0 - ((0 - a) % b)

\* Display of an i32: "{}".
RECURSIVE DecimalDigits(_)
DecimalDigits(n) ==
    IF n < 10 THEN <<ToString(n)>> ELSE DecimalDigits(n \div 10) \o <<ToString(n % 10)>>
DisplayI32(n) == IF n < 0 THEN <<"-">> \o DecimalDigits(0 - n) ELSE DecimalDigits(n)

\* "{:02}" of an i32: zeros on the left up to a width of two.
DisplayI32Width2(n) == IF Len(DisplayI32(n)) < 2 THEN <<"0">> \o DisplayI32(n) ELSE DisplayI32(n)

\* str::replace: every non-overlapping occurrence of from, left to right.
RECURSIVE StrReplace(_, _, _)
StrReplace(s, from, to) ==
    IF Len(s) < Len(from)
    THEN s
    ELSE IF SubSeq(s, 1, Len(from)) = from
         THEN to \o StrReplace(SubSeq(s, Len(from) + 1, Len(s)), from, to)
         ELSE <<s[1]>> \o StrReplace(Tail(s), from, to)

SeasonName(spring) == IF spring THEN <<"S", "p", "r", "i", "n", "g">> ELSE <<"F", "a", "l", "l">>
SeasonLetter(spring) == IF spring THEN <<"S">> ELSE <<"F">>

\* format_semester: the match on self.semester_format.
FormatSemester(format, y, spring) ==
    IF format.kind = "YearSeason"
    THEN DisplayI32(y) \o <<" ">> \o SeasonName(spring)
    ELSE IF format.kind = "SeasonYear"
         THEN SeasonName(spring) \o <<" ">> \o DisplayI32(y)
         ELSE IF format.kind = "ShortForm"
              THEN SeasonLetter(spring) \o DisplayI32(RemI32(y, 100))
              ELSE StrReplace(
                     StrReplace(
                       StrReplace(
                         StrReplace(format.format, <<"{", "y", "e", "a", "r", "}">>,
                                    DisplayI32(y)),
                         <<"{", "s", "e", "a", "s", "o", "n", "}">>, SeasonName(spring)),
                       <<"{", "s", "}">>, SeasonLetter(spring)),
                     <<"{", "y", "y", "}">>, DisplayI32Width2(RemI32(y, 100)))

-----------------------------------------------------------------------------
(* Template Engine: TemplateBuilder                                        *)

\* TemplateBuilder::new: the context of a new builder and its template type.
TemplateBuilderNew(id, course_name, author, today, current_semester, template_version) ==
    [context |-> [course_id |-> id, course_name |-> course_name, title |-> << >>,
                  author |-> author, date |-> today, semester |-> current_semester,
                  template_version |-> template_version, sections |-> << >>],
     template_type |-> Lecture]

WithTitle(builder, title) == [builder EXCEPT !.context.title = title]
WithType(builder, tt) == [builder EXCEPT !.template_type = tt]

\* TemplateBuilder::build.
Build(builder, installed) == RenderTemplate(builder.context, builder.template_type, installed)

\* TemplateBuilder::build_with_filename.
BuildWithFilename(builder, today, installed) ==
    LET content == Build(builder, installed)
        name == GenerateFilename(today, builder.context.course_id, builder.template_type,
                                 Some(builder.context.title))
    IN  IF ~content.ok
        THEN content
        ELSE IF ~name.ok
             THEN name
             ELSE Ok([content |-> content.value, filename |-> name.value])

-----------------------------------------------------------------------------
(* Assignment Manager: create_assignment                                   *)

\* The notes directory: the directories below it and the files below it
\* with their contents.  A path is the sequence of its components below
\* notes_dir: the course id, "assignments" or "lectures", the file name.
\* An operation of the file system can fail; io names, for each operation
\* the code performs, what it does in this call.

\* Validator::validate_course_id.
ValidateCourseId(id) ==
    IF StrLen(id) /= 5
    THEN Err(Lit("Course ID must be exactly 5 characters long (e.g., 02101)"))
    ELSE IF \E i \in DOMAIN id : id[i] \notin Digits
         THEN Err(Lit("Course ID must contain only digits (e.g., 02101)"))
         ELSE Ok(<< >>)

\* Config::get_course_name.
GetCourseName(config, id) ==
    IF id \in DOMAIN config.courses THEN config.courses[id] ELSE << >>

PathExistsIn(fs, p) == p \in fs.dirs \/ p \in DOMAIN fs.files

\* fs::create_dir_all.
CreateDirAll(fs, p) ==
    [fs EXCEPT !.dirs = fs.dirs \cup {SubSeq(p, 1, k) : k \in 1..Len(p)}]

\* fs::write: the file is created or truncated, then written.
FsWrite(fs, p, content, outcome) ==
    CASE outcome = "ok" -> [fs EXCEPT !.files = (p :> content) @@ fs.files]
      [] outcome = "fails after truncating" -> [fs EXCEPT !.files = (p :> << >>) @@ fs.files]
      [] outcome = "fails" -> fs

\* Path::with_extension on a file name: the part from the last dot on, when
\* that dot is not the first char, is replaced.
LastDot(name) ==
    IF \E i \in 2..Len(name) : name[i] = "."
    THEN CHOOSE i \in 2..Len(name) :
           name[i] = "." /\ \A j \in (i + 1)..Len(name) : name[j] /= "."
    ELSE 0
WithExtension(p, ext) ==
    LET name == p[Len(p)]
        stem == IF LastDot(name) = 0 THEN name ELSE SubSeq(name, 1, LastDot(name) - 1)
    IN  [p EXCEPT ![Len(p)] = stem \o <<".">> \o ext]

TypBak == <<"t", "y", "p", ".", "b", "a", "k">>

\* AssignmentManager::create_backup: fs::copy of the file to the backup path.
CreateBackup(fs, file_path, outcome) ==
    IF outcome = "ok" /\ file_path \in DOMAIN fs.files
    THEN [fs |-> [fs EXCEPT !.files =
                     (WithExtension(file_path, TypBak) :> fs.files[file_path]) @@ fs.files],
          result |-> Ok(<< >>)]
    ELSE [fs |-> fs, result |-> Err(Lit("copy failed"))]

\* TemplateEngine::build_assignment_context.
BuildAssignmentContext(id, assignment_title, config, env) ==
    Ok([course_id |-> id,
        course_name |-> GetCourseName(config, id),
        title |-> assignment_title,
        author |-> config.author,
        date |-> env.today,
        semester |-> env.semester,
        template_version |-> config.template_version,
        sections |-> config.note_preferences.assignment_sections])

\* TemplateEngine::generate_assignment_template.
GenerateAssignmentTemplate(id, assignment_title, config, env) ==
    RenderTemplate(BuildAssignmentContext(id, assignment_title, config, env).value,
                   Assignment, env.installed)

\* A create_assignment that writes over an existing file without a backup.
CreateAssignment_NoBackup(fs, id, title, config, env, io) ==
    IF ~ValidateCourseId(id).ok
    THEN [fs |-> fs, result |-> ValidateCourseId(id)]
    ELSE IF GetCourseName(config, id) = << >>
         THEN [fs |-> fs, result |-> Err(Lit("Course not found in configuration"))]
         ELSE LET assignments_dir == <<id, "assignments">>
                  file_path == assignments_dir \o <<SanitizeFilename(title) \o DotTyp>>
                  made == CreateDirAll(fs, assignments_dir)
                  content == GenerateAssignmentTemplate(id, title, config, env)
              IN  IF ~io.create_dir_all
                  THEN [fs |-> fs, result |-> Err(Lit("create_dir_all failed"))]
                  ELSE IF io.write = "ok"
                       THEN [fs |-> FsWrite(made, file_path, content.value, io.write),
                             result |-> Ok(file_path)]
                       ELSE [fs |-> FsWrite(made, file_path, content.value, io.write),
                             result |-> Err(Lit("write failed"))]

\* AssignmentManager::create_assignment: the file system after the call and
\* the value returned.
CreateAssignment(fs, id, title, config, env, io) ==
    IF ~ValidateCourseId(id).ok
    THEN [fs |-> fs, result |-> ValidateCourseId(id)]
    ELSE IF GetCourseName(config, id) = << >>
         THEN [fs |-> fs, result |-> Err(Lit("Course not found in configuration"))]
         ELSE LET assignments_dir == <<id, "assignments">>
                  file_path == assignments_dir \o <<SanitizeFilename(title) \o DotTyp>>
                  made == CreateDirAll(fs, assignments_dir)
                  backed == IF PathExistsIn(made, file_path)
                            THEN IF config.note_preferences.create_backups
                                 THEN CreateBackup(made, file_path, io.copy)
                                 ELSE [fs |-> made,
                                       result |-> Err(Lit("Assignment file already exists"))]
                            ELSE [fs |-> made, result |-> Ok(<< >>)]
                  content == GenerateAssignmentTemplate(id, title, config, env)
              IN  IF ~io.create_dir_all
                  THEN [fs |-> fs, result |-> Err(Lit("create_dir_all failed"))]
                  ELSE IF ~backed.result.ok
                       THEN backed
                       ELSE IF ~content.ok
                            THEN [fs |-> backed.fs, result |-> content]
                            ELSE IF io.write = "ok"
                                 THEN [fs |-> FsWrite(backed.fs, file_path, content.value,
                                                      io.write),
                                       result |-> Ok(file_path)]
                                 ELSE [fs |-> FsWrite(backed.fs, file_path, content.value,
                                                      io.write),
                                       result |-> Err(Lit("write failed"))]

-----------------------------------------------------------------------------
(* Commands: create_note                                                   *)

\* utils::validate_course_id.
UtilsValidateCourseId(id) ==
    IF StrLen(id) /= 5 \/ \E i \in DOMAIN id : id[i] \notin Digits
    THEN Err(Lit("Course ID must be 5 digits (e.g., 02101)"))
    ELSE Ok(<< >>)

\* The loop of create_note over config.note_preferences.lecture_sections.
RECURSIVE NoteSectionsContent(_)
NoteSectionsContent(sections) ==
    IF sections = << >>
    THEN << >>
    ELSE Lit("\n= ") \o Head(sections) \o Lit("\n")
         \o (IF Head(sections) = Lit("Examples")
             THEN Lit("\n#example[\n  Insert example here...\n]\n")
             ELSE IF Head(sections) = Lit("Important Points")
                  THEN Lit("\n#important[\n  Key takeaways from today's lecture\n]\n")
                  ELSE Lit("\n\n"))
         \o NoteSectionsContent(Tail(sections))

NoteTitle(config, today) ==
    IF config.note_preferences.include_date_in_title
    THEN Lit("Lecture - ") \o today
    ELSE Lit("Lecture Notes")

\* The format! of create_note that builds the content of a new note.
NoteContent(id, config, today, semester_name) ==
    Lit("#import \"@local/dtu-template:") \o config.template_version
    \o Lit("\": *\n\n#show: dtu-note.with(\n  course: \"") \o id
    \o Lit("\",\n  course-name: get-course-name(\"") \o id
    \o Lit("\"),\n  title: \"") \o NoteTitle(config, today)
    \o Lit("\",\n  today: datetime.today(),\n  author: \"") \o config.author
    \o Lit("\",\n  semester: \"") \o semester_name
    \o Lit("\"\n)\n\n= ") \o NoteTitle(config, today)
    \o Lit("\n") \o NoteSectionsContent(config.note_preferences.lecture_sections)
    \o Lit("\n")

NoteFilePath(id, today) == <<id, "lectures", today \o <<"-">> \o id \o LectureTyp>>

\* A create_note that writes the note whether or not it exists.
CreateNote_Overwrite(fs, id, loaded, env, io) ==
    IF ~UtilsValidateCourseId(id).ok
    THEN [fs |-> fs, result |-> UtilsValidateCourseId(id)]
    ELSE IF loaded = None
         THEN [fs |-> fs, result |-> Err(Lit("get_config failed"))]
         ELSE IF ~io.create_dir_all
              THEN [fs |-> fs, result |-> Err(Lit("create_dir_all failed"))]
              ELSE [fs |-> FsWrite(CreateDirAll(fs, <<id, "lectures">>),
                                   NoteFilePath(id, env.today),
                                   NoteContent(id, Unwrap(loaded), env.today, env.semester),
                                   io.write),
                    result |-> IF io.write = "ok" THEN Ok(<< >>)
                               ELSE Err(Lit("write failed"))]

\* commands::notes::create_note: the file system after the call and the
\* value returned.  loaded is what get_config returns, None when it fails;
\* io.open is whether open_file succeeds.
CreateNote(fs, id, loaded, env, io) ==
    IF ~UtilsValidateCourseId(id).ok
    THEN [fs |-> fs, result |-> UtilsValidateCourseId(id)]
    ELSE IF loaded = None
         THEN [fs |-> fs, result |-> Err(Lit("get_config failed"))]
         ELSE LET config == Unwrap(loaded)
                  course_dir == <<id, "lectures">>
                  filepath == NoteFilePath(id, env.today)
                  made == CreateDirAll(fs, course_dir)
                  content == NoteContent(id, config, env.today, env.semester)
                  opened == IF config.note_preferences.auto_open /\ ~io.open
                            THEN Err(Lit("open_file failed"))
                            ELSE Ok(<< >>)
              IN  IF ~io.create_dir_all
                  THEN [fs |-> fs, result |-> Err(Lit("create_dir_all failed"))]
                  ELSE IF PathExistsIn(made, filepath)
                       THEN [fs |-> made, result |-> opened]
                       ELSE IF io.write = "ok"
                            THEN [fs |-> FsWrite(made, filepath, content, io.write),
                                  result |-> opened]
                            ELSE [fs |-> FsWrite(made, filepath, content, io.write),
                                  result |-> Err(Lit("write failed"))]

-----------------------------------------------------------------------------
(* Search Engine: search_in_directory                                      *)

\* A directory is [readable, entries]; an entry of it is a record with
\* name, ext (Path::extension, None without one), is_dir, readable (whether
\* read_dir or read_to_string succeeds on it), content (the chars of a
\* file) and entries (the entries of a directory).  Offsets and lengths
\* are in bytes, as str::find and str::len give them.

\* str::find(&str): the byte offset of the first occurrence.
FindStr(haystack, needle) ==
    LET At(i) == i + Len(needle) - 1 <= Len(haystack)
                 /\ SubSeq(haystack, i, i + Len(needle) - 1) = needle
    IN  IF \E i \in 1..(Len(haystack) + 1) : At(i)
        THEN Some(StrLen(SubSeq(haystack, 1,
                                (CHOOSE i \in 1..(Len(haystack) + 1) :
                                   At(i) /\ \A j \in 1..(i - 1) : ~At(j)) - 1)))
        ELSE None

\* SearchEngine::find_match.
FindMatch(line, query, case_sensitive) ==
    IF case_sensitive
    THEN FindStr(line, query)
    ELSE FindStr(ToLowercase(line), ToLowercase(query))

\* str::lines: the pieces between "\n", each without a final "\r"; no
\* piece after a final "\n".
RECURSIVE Lines(_)
Lines(content) ==
    LET StripCr(l) == IF l /= << >> /\ l[Len(l)] = "\r" THEN SubSeq(l, 1, Len(l) - 1) ELSE l
        nl == IF \E i \in DOMAIN content : content[i] = "\n"
              THEN CHOOSE i \in DOMAIN content :
                     content[i] = "\n" /\ \A j \in 1..(i - 1) : content[j] /= "\n"
              ELSE 0
    IN  IF content = << >>
        THEN << >>
        ELSE IF nl = 0
             THEN <<StripCr(content)>>
             ELSE <<StripCr(SubSeq(content, 1, nl - 1))>>
                  \o Lines(SubSeq(content, nl + 1, Len(content)))

\* SearchEngine::should_search_file.
ShouldSearchFile(entry, options) ==
    IF IsSome(entry.ext)
    THEN Contains(options.file_extensions, ToLowercase(Unwrap(entry.ext)))
    ELSE FALSE

\* The struct literal SearchMatch { ... } of search_in_file.
SearchMatch(path, line_num, line, match_pos, query) ==
    [file_path |-> path,
     line_number |-> line_num + 1,
     line_content |-> Trim(line),
     match_start |-> match_pos,
     match_end |-> match_pos + StrLen(query)]

\* The loop of search_in_file over content.lines().enumerate(), from line i.
RECURSIVE MatchesFrom(_, _, _, _, _)
MatchesFrom(lines, i, path, query, options) ==
    IF i > Len(lines)
    THEN << >>
    ELSE (IF IsSome(FindMatch(lines[i], query, options.case_sensitive))
          THEN <<SearchMatch(path, i - 1, lines[i],
                             Unwrap(FindMatch(lines[i], query, options.case_sensitive)),
                             query)>>
          ELSE << >>)
         \o MatchesFrom(lines, i + 1, path, query, options)

\* SearchEngine::search_in_file: results with the matches pushed, or the
\* error of fs::read_to_string.
SearchInFile(path, entry, query, options, results) ==
    IF ~entry.readable
    THEN Err(Lit("read_to_string failed"))
    ELSE Ok(results \o MatchesFrom(Lines(entry.content), 1, path, query, options))

\* SearchEngine::search_recursive: SearchEntries is its loop over
\* fs::read_dir(dir), from entry i.
RECURSIVE SearchRecursive(_, _, _, _, _)
RECURSIVE SearchEntries(_, _, _, _, _, _)
SearchEntries(entries, i, path, query, options, results) ==
    IF i > Len(entries)
    THEN Ok(results)
    ELSE LET entry == entries[i]
             step == IF entry.is_dir
                     THEN SearchRecursive(entry, path \o <<entry.name>>, query, options,
                                          results)
                     ELSE IF ShouldSearchFile(entry, options)
                          THEN SearchInFile(path \o <<entry.name>>, entry, query, options,
                                            results)
                          ELSE Ok(results)
         IN  IF ~step.ok
             THEN step
             ELSE SearchEntries(entries, i + 1, path, query, options, step.value)
SearchRecursive(dir, path, query, options, results) ==
    IF ~dir.readable
    THEN Err(Lit("read_dir failed"))
    ELSE SearchEntries(dir.entries, 1, path, query, options, results)

\* Vec::truncate.
Truncate(vec, len) == SubSeq(vec, 1, IF Len(vec) < len THEN Len(vec) ELSE len)

\* SearchEngine::search_in_directory.
SearchInDirectory(dir, query, options) ==
    LET all == SearchRecursive(dir, << >>, query, options, << >>)
    IN  IF ~all.ok THEN all ELSE Ok(Truncate(all.value, options.max_results))

-----------------------------------------------------------------------------
(* Values the specifications draw their inputs from                        *)

Id01005 == <<"0", "1", "0", "0", "5">>
Id01234 == <<"0", "1", "2", "3", "4">>
Id99999 == <<"9", "9", "9", "9", "9">>
Pat01xxx == <<"0", "1", "x", "x", "x">>
Pat010xx == <<"0", "1", "0", "x", "x">>

ResolveCourseIds == {Id01005, Id01234, Id99999}
MappingKeys == {Id01005, Pat01xxx, Pat010xx}
MappingTypes == {Lit("math"), Lit("physics")}
Fallbacks == {Lit("unknown"), Lit("math")}

CourseMappings == UNION {[D -> MappingTypes] : D \in SUBSET MappingKeys}

MappingConfigs ==
    {TemplateConfig(DtuMetadata, << >>, None, cm, None) :
        cm \in {None} \cup {Some(m) : m \in CourseMappings}}

VariantPool ==
    {TemplateVariant(Lit("lecture"), Lit("general"), <<Lit("all")>>, None, None),
     TemplateVariant(Lit("lecture"), Lit("lab"), <<Lit("math"), Lit("physics")>>, None, None),
     TemplateVariant(Lit("assignment"), Lit("problem-set"), <<Lit("physics")>>, None, None)}

VariantConfigs ==
    {TemplateConfig(DtuMetadata, << >>, vs, None, None) :
        vs \in {None} \cup {Some(l) : l \in SeqsUpTo(VariantPool, MaxVariants)}}

TemplateNames == {Lit("lecture"), Lit("assignment")}
CourseTypes == {Lit("physics"), Lit("cs")}

LectureCallouts ==
    {Lit("Examples"), Lit("Important Points"), Lit("Questions"), Lit("Summary")}
AssignmentCallouts ==
    {Lit("Problem Statement"), Lit("Solution"), Lit("Analysis"), Lit("Conclusion"),
     Lit("Code"), Lit("Calculations")}
SectionNames ==
    LectureCallouts \cup AssignmentCallouts \cup {Lit("Notes"), Lit("examples")}

TemplateTypes == {Lecture, Assignment, Custom(Lit("research"))}

Contexts ==
    [course_id : {<< >>, Lit("02101")},
     course_name : {<< >>, Lit("Introduction to Programming")},
     title : {Lit("Lecture Notes")},
     author : {Lit("Ada")},
     date : {Lit("2025-09-01")},
     semester : {Lit("2025 Fall")},
     template_version : {Lit("0.1.0")},
     sections : SeqsUpTo(SectionNames, MaxSections)]

InstalledInfos == {None, Some(<<Lit("dtu-template"), Lit("0.2.0")>>)}

VariantSectionNames == {Lit("Theory"), Lit("Examples"), Lit("Lab Report")}
SectionLists == SeqsUpTo(VariantSectionNames, MaxSections)
OptionalSectionLists == {None} \cup {Some(l) : l \in SectionLists}

Definitions ==
    {TemplateDefinition(Lit("lecture"), Lit("lecture.typ"), Lit("dtu-note"), TRUE, None, d) :
        d \in SectionLists}
Variants ==
    {None} \cup
    {Some(TemplateVariant(Lit("lecture"), Lit("lab"), <<Lit("physics")>>, a, o)) :
        a \in OptionalSectionLists, o \in OptionalSectionLists}

SanitizeAlphabet == {"a", "B", "7", "-", "_", " ", "#", "U+00F8", "U+00C5"}
TitleAlphabet == {"a", "B", " ", "#", "-"}
Dates == {<<"2", "0", "2", "5", "-", "0", "9", "-", "0", "1">>,
          <<"2", "0", "2", "6", "-", "0", "1", "-", "1", "5">>}
FilenameCourseIds == {<<"0", "2", "1", "0", "1">>}
FilenameTypes ==
    {Lecture, Assignment, Custom(<<"L", "a", "b", " ", "1">>), Custom(<<"#">>)}

PackageNames == {Lit("dtu-template"), Lit("alt-template"), Lit("scratch")}
TopVersion == Lit("0.1.0")
SubVersion == Lit("0.2.0")

ManifestFor(name, version) ==
    TemplateConfig(TemplateMetadata(name, version), << >>, None, None, None)
ManifestFiles(name, version) ==
    {None, CorruptManifest, ValidManifest(ManifestFor(name, version))}
VersionDirs(name) ==
    {<< >>, <<DirEntry(SubVersion, FALSE, None, << >>, << >>)>>}
    \cup {<<DirEntry(SubVersion, TRUE, m, << >>, << >>)>> : m \in ManifestFiles(name, SubVersion)}
PackageEntries(name) ==
    {DirEntry(name, FALSE, None, << >>, << >>)}
    \cup {DirEntry(name, TRUE, m, << >>, v) :
            m \in ManifestFiles(name, TopVersion), v \in VersionDirs(name)}

\* --- directory trees for find_all_template_packages ---
ScanNames == {Lit("dtu-template"), Lit("alt-template")}
OldVersion == Lit("0.0.9")

\* A directory below a version directory, holding a manifest of its own.
DeepDirs(name) ==
    {<< >>,
     <<DirEntry(Lit("nested"), TRUE, ValidManifest(ManifestFor(name, SubVersion)),
                << >>, << >>)>>}
ScanManifests(name, version) == {None, ValidManifest(ManifestFor(name, version))}
ScanVersionDirs(name) ==
    {<< >>, <<DirEntry(SubVersion, FALSE, None, << >>, << >>)>>}
    \cup {<<DirEntry(SubVersion, TRUE, m, << >>, deep)>> :
            m \in ScanManifests(name, SubVersion), deep \in DeepDirs(name)}
    \cup {<<DirEntry(OldVersion, TRUE, ValidManifest(ManifestFor(name, OldVersion)),
                     << >>, << >>),
            DirEntry(SubVersion, TRUE, ValidManifest(ManifestFor(name, SubVersion)),
                     << >>, << >>)>>}
ScanEntries(name) ==
    {DirEntry(name, FALSE, None, << >>, << >>)}
    \cup {DirEntry(name, TRUE, m, << >>, v) :
            m \in ScanManifests(name, TopVersion), v \in ScanVersionDirs(name)}

\* read_dir lists every name once.
DistinctNames(es) == \A i, j \in DOMAIN es : es[i].name = es[j].name => i = j
DirsOver(Entries) ==
    {[exists |-> FALSE, entries |-> << >>]}
    \cup {[exists |-> TRUE, entries |-> es] :
            es \in {x \in SeqsUpTo(Entries, MaxPackages) :
                      DistinctNames(x)}}

\* --- packages for discover_templates ---
LectureTypFile == Lit("lecture.typ")
AssignmentTypFile == Lit("assignment.typ")
LectureDefinition ==
    TemplateDefinition(Lit("lecture"), LectureTypFile, Lit("dtu-note"), TRUE, None, << >>)
AssignmentDefinition ==
    TemplateDefinition(Lit("assignment"), AssignmentTypFile, Lit("dtu-assignment"),
                       TRUE, None, << >>)

\* What a manifest says of itself is independent of the directory it is in.
DiscoverMetadata ==
    {TemplateMetadata(Lit("dtu-template"), TopVersion),
     TemplateMetadata(Lit("dtu-template"), SubVersion),
     TemplateMetadata(Lit("alt-template"), TopVersion)}
DiscoverTemplateLists == {<<LectureDefinition>>, <<AssignmentDefinition, LectureDefinition>>}
DiscoverManifests ==
    {CorruptManifest}
    \cup {ValidManifest(TemplateConfig(m, ts, None, None, None)) :
            m \in DiscoverMetadata, ts \in DiscoverTemplateLists}
FilesNamed(S) == [f \in S |-> << >>]
DiscoverFiles == {FilesNamed({}), FilesNamed({LectureTypFile})}
DiscoverEntries(name) ==
    {DirEntry(name, TRUE, m, fs, << >>) : m \in DiscoverManifests, fs \in DiscoverFiles}
    \cup {DirEntry(name, TRUE, None, << >>, <<DirEntry(SubVersion, TRUE, m, fs, << >>)>>) :
            m \in DiscoverManifests, fs \in DiscoverFiles}

\* --- manifests for the template finders ---
\* A second definition named lecture, in another file.
LectureDefinitionAlt ==
    TemplateDefinition(Lit("lecture"), Lit("lecture-alt.typ"), Lit("dtu-note"),
                       FALSE, None, << >>)
FindMetadata ==
    {TemplateMetadata(Lit("dtu-template"), TopVersion),
     TemplateMetadata(Lit("alt-template"), TopVersion)}
FindTemplateLists ==
    {<< >>, <<LectureDefinition>>, <<AssignmentDefinition, LectureDefinition>>,
     <<LectureDefinitionAlt, LectureDefinition>>}
FindManifests ==
    {TemplateConfig(m, ts, None, None, None) : m \in FindMetadata, ts \in FindTemplateLists}
FindNames == {Lit("lecture"), Lit("assignment"), Lit("report")}
PreferredPackages ==
    {None, Some(Lit("dtu-template")), Some(Lit("alt-template")), Some(Lit("my-template"))}

\* --- installed packages for get_installed_template_info ---
VersionLine(q, v) == <<Blank, "version", Blank, "=", Blank, q>> \o v \o <<q>>
NameLine == <<"name", Blank, "=", Blank, "\"", "dtu-template", "\"">>
PackageHeaderLine == <<"[package]">>
TypstTomls ==
    {<<PackageHeaderLine, NameLine>>,
     <<PackageHeaderLine, NameLine, VersionLine("\"", Lit("0.2.0"))>>,
     <<PackageHeaderLine, VersionLine("\"", << >>), VersionLine("'", Lit("0.4.0"))>>}
DetectFiles ==
    {FilesNamed({})} \cup {[f \in {TypstTomlName} |-> t] : t \in TypstTomls}
DetectEntries ==
    {DirEntry(n, TRUE, None, fs, << >>) : n \in ScanNames, fs \in DetectFiles}
    \cup {DirEntry(Lit("dtu-template"), FALSE, None, << >>, << >>)}
TemplatesDirs ==
    {[exists |-> FALSE, entries |-> << >>],
     [exists |-> TRUE,
      entries |-> <<DirEntry(Lit("my-template"), TRUE, None,
                             [f \in {TypstTomlName} |->
                                <<VersionLine("\"", Lit("0.5.0"))>>], << >>)>>]}
StatusNames == {<<"d", "t", "u", "_", "T">>, <<"a", "l", "t">>}
StatusLists ==
    {<< >>,
     <<<<<<"a", "l", "t">>, None>>>>,
     <<<<<<"a", "l", "t">>, None>>, <<<<"d", "t", "u", "_", "T">>, Some(Lit("0.3.0"))>>>>,
     <<<<<<"a", "l", "t">>, Some(Lit("0.1.0"))>>, <<<<"d", "t", "u", "_", "T">>, Some(Lit("0.3.0"))>>>>}
DetectEnvs ==
    {[get_config |-> FALSE, check_template_status |-> Err(<< >>)],
     [get_config |-> TRUE, check_template_status |-> Err(<< >>)]}
    \cup {[get_config |-> TRUE, check_template_status |-> Ok(l)] : l \in StatusLists}
ImportContexts ==
    [course_id : {Lit("02101")},
     course_name : {Lit("Introduction to Programming")},
     title : {Lit("Lecture Notes")},
     author : {Lit("Ada")},
     date : {Lit("2025-09-01")},
     semester : {Lit("2025 Fall")},
     template_version : {Lit("0.1.0"), Lit("0.3.0")},
     sections : {<< >>, <<Lit("Summary")>>}]

\* --- manifests for validate_template_config ---
SemverVersion == <<"1", ".", "0", ".", "0">>
ShortVersion == <<"1", ".", "0">>
ValidationMetadata ==
    {TemplateMetadata(n, v) :
        n \in {Lit("dtu-template"), <<Blank>>},
        v \in {SemverVersion, ShortVersion, << >>}}

GoodDefinition ==
    TemplateDefinition(Lit("lecture"), <<"lecture", ".typ">>, Lit("dtu-note"),
                       TRUE, Some(<<Lit("math")>>), <<Lit("Notes")>>)
NamelessDefinition ==
    TemplateDefinition(<< >>, <<"lecture", ".typ">>, Lit("dtu-note"), TRUE, None, << >>)
TextFileDefinition ==
    TemplateDefinition(Lit("report"), <<"report", ".txt">>, Lit("dtu-report"),
                       FALSE, None, << >>)
HollowDefinition ==
    TemplateDefinition(Lit("assignment"), << >>, <<Blank>>, TRUE,
                       Some(<<Lit("math"), << >>>>), << >>)
ValidationTemplateLists ==
    {<< >>, <<GoodDefinition>>, <<NamelessDefinition>>,
     <<GoodDefinition, NamelessDefinition>>, <<TextFileDefinition, HollowDefinition>>}

ValidationVariantLists ==
    {None,
     Some(<<TemplateVariant(Lit("lecture"), Lit("math"), <<Lit("math")>>, None, None)>>),
     Some(<<TemplateVariant(Lit("lecture"), Lit("math"), << >>, None, None)>>),
     Some(<<TemplateVariant(Lit("report"), Lit("math"), <<Lit("math")>>, None, None)>>),
     Some(<<TemplateVariant(Lit("thesis"), << >>, <<Lit("all")>>, None, None),
            TemplateVariant(<< >>, Lit("bare"), << >>, None, None)>>)}

PatXxx01 == <<"x", "x", "x", "0", "1">>
ValidationMappings ==
    {None,
     Some([k \in {Pat01xxx} |-> Lit("math")]),
     Some([k \in {<< >>, PatXxx01} |-> IF k = << >> THEN Lit("math") ELSE << >>])}

ValidationEngines ==
    {None, Some(EngineConfig(SemverVersion, 30, 4)), Some(EngineConfig(ShortVersion, 0, 0))}

ValidationManifests ==
    {TemplateConfig(m, ts, vs, cm, e) :
        m \in ValidationMetadata, ts \in ValidationTemplateLists,
        vs \in ValidationVariantLists, cm \in ValidationMappings,
        e \in ValidationEngines}

\* --- installed packages for validate_system ---
AssignmentGoodDefinition ==
    TemplateDefinition(Lit("assignment"), <<"assignment", ".typ">>,
                       Lit("dtu-assignment"), TRUE, None, <<Lit("Solution")>>)
DtuSemver == TemplateMetadata(Lit("dtu-template"), SemverVersion)
AltSemver == TemplateMetadata(Lit("alt-template"), SemverVersion)
VariantOf(base) == TemplateVariant(base, Lit("math"), <<Lit("math")>>, None, None)
\* Build versions, and the minimum versions a manifest asks for: below,
\* at and above a build version in each field, with and without a
\* pre-release, and one that is no semver version.
CargoPkgVersions == {<<"0", ".", "6", ".", "0">>, <<"0", ".", "10", ".", "0">>}
MinimumVersions ==
    {<<"0", ".", "5", ".", "9">>, <<"0", ".", "6", ".", "0">>,
     <<"0", ".", "6", ".", "1">>, <<"0", ".", "10", ".", "0">>,
     <<"0", ".", "6", ".", "0", "-", "1">>, <<"0", ".", "10", ".", "1", "-", "1">>,
     SemverVersion, ShortVersion}
SystemManifests ==
    {TemplateConfig(DtuSemver, <<GoodDefinition>>, None, None, None),
     TemplateConfig(AltSemver, <<GoodDefinition>>, Some(<<VariantOf(Lit("lecture"))>>),
                    None, None),
     TemplateConfig(AltSemver, <<AssignmentGoodDefinition>>,
                    Some(<<VariantOf(Lit("lecture"))>>), None, None),
     TemplateConfig(AltSemver, <<AssignmentGoodDefinition>>,
                    Some(<<VariantOf(Lit("thesis"))>>), None, None),
     TemplateConfig(DtuSemver, <<GoodDefinition>>, None, None,
                    Some(EngineConfig(<<"9", ".", "0", ".", "0">>, 30, 4)))}
    \cup {TemplateConfig(DtuSemver, <<GoodDefinition>>, None, None,
                         Some(EngineConfig(v, 30, 4))) : v \in MinimumVersions}
    \cup {TemplateConfig(AltSemver, <<AssignmentGoodDefinition>>, None, None,
                         Some(EngineConfig(v, 30, 4))) :
            v \in {<<"0", ".", "6", ".", "0">>, <<"0", ".", "6", ".", "1">>}}
SystemEntries ==
    {DirEntry(n, TRUE, m, << >>, << >>) :
        n \in ScanNames,
        m \in {CorruptManifest} \cup {ValidManifest(c) : c \in SystemManifests}}

\* --- contexts for validate_template_context ---
RequiredVariablesRule ==
    [rule_type |-> "RequiredVariables",
     parameters |-> [p \in {Lit("variables")} |-> <<"title", ",", Blank, "reviewer">>],
     regex |-> None,
     error_message |-> Lit("title and reviewer are required")]
VariablePatternRule ==
    [rule_type |-> "VariablePattern",
     parameters |-> [p \in {Lit("variable"), Lit("pattern")} |->
                        IF p = Lit("variable") THEN Lit("title") ELSE Lit("^Week")],
     regex |-> Some({Lit("Week 1")}),
     error_message |-> Lit("title must start with Week")]
MaxFileSizeRule ==
    [rule_type |-> "MaxFileSize", parameters |-> << >>, regex |-> None,
     error_message |-> Lit("too large")]
ContextEngineConfigs ==
    [validation : [validate_variables : BOOLEAN,
                   custom_rules : {<< >>, <<RequiredVariablesRule, MaxFileSizeRule>>,
                                   <<VariablePatternRule>>}],
     variables : [builtin_variables : {<<Lit("title"), Lit("date")>>},
                  allow_undefined : BOOLEAN]]
ValidationContexts ==
    [author : {Lit("Ada"), <<Blank>>},
     course_id : {Lit("02101"), << >>},
     course_name : {Lit("Introduction to Programming"), << >>},
     sections : {<< >>, <<Lit("Notes")>>},
     variables : {<< >>, [v \in {Lit("title")} |-> Lit("Lecture 1")]},
     engine_config : ContextEngineConfigs]
ContextDefinitions == {GoodDefinition, TextFileDefinition}
ContextVariants ==
    {None,
     Some(TemplateVariant(Lit("lecture"), Lit("math"), <<Lit("math")>>, None, Some(<< >>))),
     Some(TemplateVariant(Lit("lecture"), Lit("math"), <<Lit("math")>>, None, None))}

\* --- semesters ---
\* Years around a change of century, years whose last two digits are below
\* ten, and the year of the repository's own test.
SemesterYears == {1999, 2000, 2005, 2009, 2010, 2024, 2100, 2101}
CustomFormats ==
    {<<"{", "s", "}", "{", "y", "y", "}">>,
     <<"{", "s", "e", "a", "s", "o", "n", "}", " ", "{", "y", "e", "a", "r", "}">>,
     <<"{", "y", "y", "}", "/", "{", "y", "e", "a", "r", "}">>,
     <<"{", "y", "y", "}", "{", "y", "y", "}">>}
SemesterFormats ==
    {[kind |-> k, format |-> << >>] : k \in {"YearSeason", "SeasonYear", "ShortForm"}}
    \cup {[kind |-> "Custom", format |-> f] : f \in CustomFormats}

\* --- the notes directory, for create_assignment and create_note ---
RegisteredId == <<"0", "2", "1", "0", "1">>
CommandCourseIds ==
    {RegisteredId, Id01005, <<"0", "2", "1", "0">>, <<"0", "2", "1", "0", "a">>}
AssignmentTitles == {<<"H", "W", " ", "1">>, <<"h", "w", "-", "1">>, << >>, <<"#">>}
UserContent == Lit("= My solution")
Hw1Path == <<RegisteredId, "assignments", <<"h", "w", "-", "1">> \o DotTyp>>
EmptyNotesDir == [dirs |-> {}, files |-> << >>]
NotesDirs ==
    {EmptyNotesDir,
     [dirs |-> {<<RegisteredId>>, <<RegisteredId, "assignments">>},
      files |-> (Hw1Path :> UserContent)]}
CommandConfigs ==
    {[author |-> Lit("Ada"),
      template_version |-> Lit("0.1.0"),
      courses |-> (RegisteredId :> Lit("Introduction to Programming")),
      note_preferences |-> [create_backups |-> b,
                            include_date_in_title |-> d,
                            auto_open |-> a,
                            lecture_sections |-> <<Lit("Notes"), Lit("Examples")>>,
                            assignment_sections |-> <<Lit("Problem 1")>>]] :
        b \in BOOLEAN, d \in BOOLEAN, a \in BOOLEAN}
CommandEnvs ==
    {[today |-> Lit("2025-09-01"), semester |-> Lit("2025 Fall"), installed |-> None]}
IoOutcomes ==
    [create_dir_all : BOOLEAN, copy : {"ok", "fails"},
     write : {"ok", "fails", "fails after truncating"}]

NoteCourseIds == {RegisteredId, <<"0", "2", "1", "0", "a">>}
NoteConfigs == {c \in CommandConfigs : ~c.note_preferences.create_backups}
NoteDates == {Lit("2025-09-01"), Lit("2025-09-02")}
NoteEnvs == {[today |-> d, semester |-> Lit("2025 Fall"), installed |-> None] : d \in NoteDates}
ExistingNotePath == <<RegisteredId, "lectures", Lit("2025-09-01") \o <<"-">> \o RegisteredId \o LectureTyp>>
UserNote == Lit("= What I wrote in the lecture")
NoteDirs ==
    {EmptyNotesDir,
     [dirs |-> {<<RegisteredId>>, <<RegisteredId, "lectures">>},
      files |-> (ExistingNotePath :> UserNote)]}
NoteIoOutcomes ==
    [create_dir_all : BOOLEAN, open : BOOLEAN,
     write : {"ok", "fails", "fails after truncating"}]

\* --- the directories searched ---
MaxResults == 2
Typ == <<"t", "y", "p">>
SearchFile(name, ext, readable, content) ==
    [name |-> name, ext |-> ext, is_dir |-> FALSE, readable |-> readable,
     content |-> content, entries |-> << >>]
SearchSubdir(name, readable, entries) ==
    [name |-> name, ext |-> None, is_dir |-> TRUE, readable |-> readable,
     content |-> << >>, entries |-> entries]
PlainFile == SearchFile("plain.typ", Some(Typ), TRUE, <<"a", "b", " ", "a", "\n", "b", "A", "B">>)
IndentedFile == SearchFile("indented.TYP", Some(<<"T", "Y", "P">>), TRUE, <<"a", "b", "\n", " ", " ", "a", "b", " ", "\n">>)
AccentFile == SearchFile("accent.typ", Some(Typ), TRUE, <<" ", "U+00E9", " ", "A", "b">>)
MarkdownFile == SearchFile("readme.md", Some(<<"m", "d">>), TRUE, <<" ", "a", "b">>)
NoExtensionFile == SearchFile("Makefile", None, TRUE, <<" ", "a", "b">>)
BinaryFile == SearchFile("binary.typ", Some(Typ), FALSE, << >>)
SearchDirs ==
    {[readable |-> r, entries |-> e] :
       r \in BOOLEAN,
       e \in {<< >>,
              <<PlainFile>>,
              <<IndentedFile>>,
              <<AccentFile, MarkdownFile>>,
              <<PlainFile, NoExtensionFile, IndentedFile>>,
              <<SearchSubdir("lectures", TRUE, <<IndentedFile>>), PlainFile>>,
              <<SearchSubdir("lectures", FALSE, << >>), PlainFile>>,
              <<PlainFile, BinaryFile>>}}
Queries == {<<"a", "b">>, <<"A", "B">>, <<"b", " ">>, <<"U+00E9">>, << >>}
SearchOptionsPool ==
    [case_sensitive : BOOLEAN, max_results : 0..MaxResults, context_lines : {0},
     file_extensions : {<<Typ>>, <<Typ, <<"m", "d">>>>}]

-----------------------------------------------------------------------------
(* Specifications                                                          *)

IdleCourse == course_id = << >>
IdleMatch == pattern = << >> /\ matches_result = None
IdleConfigs == configs = << >>
IdleResolve == fallback = << >> /\ resolved = None
IdleVariant == template_name = << >> /\ course_type = << >> /\ best_variant = None
IdleRender ==
    context = << >> /\ template_type = << >> /\ installed_info = None /\ rendered = None
IdleSections == definition = << >> /\ variant = None
IdleFilename == date = << >> /\ custom_title = None /\ filename = None
IdleSanitize == input = << >> /\ sanitized = None
IdleLoad == disk = << >> /\ load_result = None
IdleDiscovery ==
    packages = None /\ available = None /\ preferred_package = None /\ found = None
IdleDetect == template_statuses = << >> /\ templates_dir = << >>
IdleValidation == issues = None /\ current_version = << >>
IdleSemester ==
    semester_format = << >> /\ year = 0 /\ is_spring = FALSE /\ semester = None
IdleFiles == user_config = << >> /\ notes_fs = << >> /\ last_call = None
IdleSearch ==
    /\ search_dir = << >> /\ search_query = << >>
    /\ search_options = << >> /\ search_results = None
IdleTools == IdleSemester /\ IdleFiles /\ IdleSearch
IdleCommands == IdleTools /\ earlier_result = None

\* --- matches_course_pattern ---
InitMatch ==
    /\ course_id \in SeqsUpTo(MatchAlphabet, MaxPatternLen)
    /\ pattern \in SeqsUpTo(MatchAlphabet, MaxPatternLen)
    /\ matches_result = None
    /\ IdleConfigs /\ IdleResolve /\ IdleVariant /\ IdleRender /\ IdleSections
    /\ IdleFilename /\ IdleSanitize /\ IdleLoad
    /\ IdleDiscovery /\ IdleDetect /\ IdleValidation
    /\ IdleCommands

CallMatchesCoursePattern ==
    /\ matches_result = None
    /\ matches_result' = Some(MatchesCoursePattern(course_id, pattern))
    /\ UNCHANGED <<commandVars, discoveryVars, detectVars, validationVars,
                   course_id, pattern, configs, resolveVars, variantVars, renderVars,
                   sectionVars, filenameVars, sanitizeVars, loadVars>>

NextMatch == CallMatchesCoursePattern
SpecMatch == InitMatch /\ [][NextMatch]_vars

\* --- resolve_course_type ---
InitResolve ==
    /\ course_id \in ResolveCourseIds
    /\ configs \in SeqsUpTo(MappingConfigs, MaxConfigs)
    /\ fallback \in Fallbacks
    /\ resolved = None
    /\ IdleMatch /\ IdleVariant /\ IdleRender /\ IdleSections
    /\ IdleFilename /\ IdleSanitize /\ IdleLoad
    /\ IdleDiscovery /\ IdleDetect /\ IdleValidation
    /\ IdleCommands

CallResolveCourseType ==
    /\ resolved = None
    /\ \E r \in ResolveCourseType(configs, course_id, fallback) : resolved' = Some(r)
    /\ UNCHANGED <<commandVars, discoveryVars, detectVars, validationVars,
                   course_id, configs, fallback, matchVars, variantVars, renderVars,
                   sectionVars, filenameVars, sanitizeVars, loadVars>>

NextResolve == CallResolveCourseType
SpecResolve == InitResolve /\ [][NextResolve]_vars

\* --- find_best_variant ---
InitVariant ==
    /\ configs \in SeqsUpTo(VariantConfigs, MaxConfigs)
    /\ template_name \in TemplateNames
    /\ course_type \in CourseTypes
    /\ best_variant = None
    /\ IdleCourse /\ IdleMatch /\ IdleResolve /\ IdleRender /\ IdleSections
    /\ IdleFilename /\ IdleSanitize /\ IdleLoad
    /\ IdleDiscovery /\ IdleDetect /\ IdleValidation
    /\ IdleCommands

CallFindBestVariant ==
    /\ best_variant = None
    /\ best_variant' = Some(FindBestVariant(configs, template_name, course_type))
    /\ UNCHANGED <<commandVars, discoveryVars, detectVars, validationVars,
                   course_id, configs, template_name, course_type, matchVars,
                   resolveVars, renderVars, sectionVars, filenameVars, sanitizeVars,
                   loadVars>>

NextVariant == CallFindBestVariant
SpecVariant == InitVariant /\ [][NextVariant]_vars

\* --- render_template ---
InitRender ==
    /\ context \in Contexts
    /\ template_type \in TemplateTypes
    /\ installed_info \in InstalledInfos
    /\ rendered = None
    /\ IdleCourse /\ IdleMatch /\ IdleConfigs /\ IdleResolve /\ IdleVariant
    /\ IdleSections /\ IdleFilename /\ IdleSanitize /\ IdleLoad
    /\ IdleDiscovery /\ IdleDetect /\ IdleValidation
    /\ IdleCommands

CallRenderTemplate ==
    /\ rendered = None
    /\ rendered' = Some(RenderTemplate(context, template_type, installed_info))
    /\ UNCHANGED <<commandVars, discoveryVars, detectVars, validationVars,
                   course_id, configs, context, template_type, installed_info,
                   matchVars, resolveVars, variantVars, sectionVars, filenameVars,
                   sanitizeVars, loadVars>>

NextRender == CallRenderTemplate
SpecRender == InitRender /\ [][NextRender]_vars

\* --- render with a definition and a variant ---
InitVariantRender ==
    /\ definition \in Definitions
    /\ variant \in Variants
    /\ context \in {c \in Contexts : c.sections = << >> /\ c.course_id /= << >>
                                     /\ c.course_name /= << >>}
    /\ template_type \in {Lecture, Custom(Lit("research"))}
    /\ installed_info = None
    /\ rendered = None
    /\ IdleCourse /\ IdleMatch /\ IdleConfigs /\ IdleResolve /\ IdleVariant
    /\ IdleFilename /\ IdleSanitize /\ IdleLoad
    /\ IdleDiscovery /\ IdleDetect /\ IdleValidation
    /\ IdleCommands

\* The context's section list is computed from the definition and the
\* variant, and the context is rendered.
CallRenderWithVariant ==
    /\ rendered = None
    /\ context' = [context EXCEPT !.sections = VariantSections(definition, variant)]
    /\ rendered' = Some(RenderTemplate(context', template_type, installed_info))
    /\ UNCHANGED <<commandVars, discoveryVars, detectVars, validationVars,
                   course_id, configs, template_type, installed_info, definition,
                   variant, matchVars, resolveVars, variantVars, filenameVars,
                   sanitizeVars, loadVars>>

NextVariantRender == CallRenderWithVariant
SpecVariantRender == InitVariantRender /\ [][NextVariantRender]_vars

\* --- generate_filename ---
InitFilename ==
    /\ date \in Dates
    /\ course_id \in FilenameCourseIds
    /\ template_type \in FilenameTypes
    /\ custom_title \in {None} \cup {Some(t) : t \in SeqsUpTo(TitleAlphabet, MaxInputLen)}
    /\ filename = None
    /\ context = << >> /\ installed_info = None /\ rendered = None
    /\ IdleMatch /\ IdleConfigs /\ IdleResolve /\ IdleVariant /\ IdleSections
    /\ IdleSanitize /\ IdleLoad
    /\ IdleDiscovery /\ IdleDetect /\ IdleValidation
    /\ IdleCommands

CallGenerateFilename ==
    /\ filename = None
    /\ filename' = Some(GenerateFilename(date, course_id, template_type, custom_title))
    /\ UNCHANGED <<commandVars, discoveryVars, detectVars, validationVars,
                   course_id, configs, date, custom_title, matchVars, resolveVars,
                   variantVars, renderVars, sectionVars, sanitizeVars, loadVars>>

NextFilename == CallGenerateFilename
SpecFilename == InitFilename /\ [][NextFilename]_vars

\* --- sanitize_filename ---
InitSanitize ==
    /\ input \in SeqsUpTo(SanitizeAlphabet, MaxInputLen)
    /\ sanitized = None
    /\ IdleCourse /\ IdleMatch /\ IdleConfigs /\ IdleResolve /\ IdleVariant
    /\ IdleRender /\ IdleSections /\ IdleFilename /\ IdleLoad
    /\ IdleDiscovery /\ IdleDetect /\ IdleValidation
    /\ IdleCommands

\* Both sanitizers are applied to the input, and each once more to its own
\* output.
CallSanitizeFilename ==
    /\ sanitized = None
    /\ sanitized' = Some([validator |-> SanitizeFilename(input),
                          utils |-> UtilsSanitizeFilename(input),
                          validator_twice |-> SanitizeFilename(SanitizeFilename(input)),
                          utils_twice |->
                              UtilsSanitizeFilename(UtilsSanitizeFilename(input))])
    /\ UNCHANGED <<commandVars, discoveryVars, detectVars, validationVars,
                   course_id, configs, input, matchVars, resolveVars, variantVars,
                   renderVars, sectionVars, filenameVars, loadVars>>

NextSanitize == CallSanitizeFilename
SpecSanitize == InitSanitize /\ [][NextSanitize]_vars

\* --- load_template_configs over a changing packages directory ---
InsertAt(s, i, e) == SubSeq(s, 1, i - 1) \o <<e>> \o SubSeq(s, i, Len(s))
RemoveAt(s, i) == SubSeq(s, 1, i - 1) \o SubSeq(s, i + 1, Len(s))

InitLoad ==
    /\ disk \in {[exists |-> FALSE, entries |-> << >>], [exists |-> TRUE, entries |-> << >>]}
    /\ load_result = None
    /\ IdleCourse /\ IdleMatch /\ IdleConfigs /\ IdleResolve /\ IdleVariant
    /\ IdleRender /\ IdleSections /\ IdleFilename /\ IdleSanitize
    /\ IdleDiscovery /\ IdleDetect /\ IdleValidation
    /\ IdleCommands

\* The environment puts a new entry into the packages directory; read_dir
\* may list it at any position.
InstallPackage ==
    /\ load_result = None
    /\ Len(disk.entries) < MaxPackages
    /\ \E name \in PackageNames :
         /\ \A i \in DOMAIN disk.entries : disk.entries[i].name /= name
         /\ \E e \in PackageEntries(name), i \in 1..(Len(disk.entries) + 1) :
              disk' = [exists |-> TRUE, entries |-> InsertAt(disk.entries, i, e)]
    /\ UNCHANGED <<commandVars, discoveryVars, detectVars, validationVars,
                   course_id, configs, load_result, matchVars, resolveVars, variantVars,
                   renderVars, sectionVars, filenameVars, sanitizeVars>>

\* The environment removes an entry of the packages directory.
RemovePackage ==
    /\ load_result = None
    /\ \E i \in DOMAIN disk.entries :
         disk' = [disk EXCEPT !.entries = RemoveAt(disk.entries, i)]
    /\ UNCHANGED <<commandVars, discoveryVars, detectVars, validationVars,
                   course_id, configs, load_result, matchVars, resolveVars, variantVars,
                   renderVars, sectionVars, filenameVars, sanitizeVars>>

CallLoadTemplateConfigs ==
    /\ load_result = None
    /\ load_result' = Some(LoadTemplateConfigs(disk))
    /\ UNCHANGED <<commandVars, discoveryVars, detectVars, validationVars,
                   course_id, configs, disk, matchVars, resolveVars, variantVars,
                   renderVars, sectionVars, filenameVars, sanitizeVars>>

\* The invocation ends; nothing it loaded is kept by the program. What the
\* first call returned is remembered for comparison with later calls, when
\* the directory then had at most one entry.
Exit ==
    /\ load_result /= None
    /\ load_result' = None
    /\ earlier_result' = IF earlier_result = None /\ Len(disk.entries) <= 1
                         THEN load_result
                         ELSE earlier_result
    /\ UNCHANGED <<toolVars, discoveryVars, detectVars, validationVars,
                   course_id, configs, disk, matchVars, resolveVars, variantVars,
                   renderVars, sectionVars, filenameVars, sanitizeVars>>

NextLoad == InstallPackage \/ RemovePackage \/ CallLoadTemplateConfigs \/ Exit
SpecLoad == InitLoad /\ [][NextLoad]_vars

\* --- find_all_template_packages ---
InitScan ==
    /\ disk \in DirsOver(UNION {ScanEntries(n) : n \in ScanNames})
    /\ load_result = None
    /\ IdleCourse /\ IdleMatch /\ IdleConfigs /\ IdleResolve /\ IdleVariant
    /\ IdleRender /\ IdleSections /\ IdleFilename /\ IdleSanitize
    /\ IdleDiscovery /\ IdleDetect /\ IdleValidation
    /\ IdleCommands

CallFindAllTemplatePackages ==
    /\ packages = None
    /\ packages' = Some(FindAllTemplatePackages(disk))
    /\ UNCHANGED <<commandVars, available, preferred_package, found, detectVars, validationVars,
                   course_id, configs, matchVars, resolveVars, variantVars,
                   renderVars, sectionVars, filenameVars, sanitizeVars, loadVars>>

NextScan == CallFindAllTemplatePackages
SpecScan == InitScan /\ [][NextScan]_vars

\* --- discover_templates ---
InitDiscover ==
    /\ disk \in DirsOver(UNION {DiscoverEntries(n) : n \in ScanNames})
    /\ load_result = None
    /\ IdleCourse /\ IdleMatch /\ IdleConfigs /\ IdleResolve /\ IdleVariant
    /\ IdleRender /\ IdleSections /\ IdleFilename /\ IdleSanitize
    /\ IdleDiscovery /\ IdleDetect /\ IdleValidation
    /\ IdleCommands

CallDiscoverTemplates ==
    /\ available = None
    /\ available' = Some(DiscoverTemplates(disk))
    /\ UNCHANGED <<commandVars, packages, preferred_package, found, detectVars, validationVars,
                   course_id, configs, matchVars, resolveVars, variantVars,
                   renderVars, sectionVars, filenameVars, sanitizeVars, loadVars>>

NextDiscover == CallDiscoverTemplates
SpecDiscover == InitDiscover /\ [][NextDiscover]_vars

\* --- find_template and find_template_with_preference ---
InitFind ==
    /\ configs \in SeqsUpTo(FindManifests, MaxConfigs)
    /\ template_name \in FindNames
    /\ preferred_package \in PreferredPackages
    /\ course_type = << >> /\ best_variant = None
    /\ packages = None /\ available = None /\ found = None
    /\ IdleCourse /\ IdleMatch /\ IdleResolve /\ IdleRender /\ IdleSections
    /\ IdleFilename /\ IdleSanitize /\ IdleLoad /\ IdleDetect /\ IdleValidation
    /\ IdleCommands

CallFindTemplate ==
    /\ found = None
    /\ found' = Some([by |-> "find_template",
                      result |-> FindTemplate(configs, template_name)])
    /\ UNCHANGED <<commandVars, packages, available, preferred_package, detectVars, validationVars,
                   course_id, configs, matchVars, resolveVars, variantVars,
                   renderVars, sectionVars, filenameVars, sanitizeVars, loadVars>>

CallFindTemplateWithPreference ==
    /\ found = None
    /\ found' = Some([by |-> "find_template_with_preference",
                      result |-> FindTemplateWithPreference(configs, template_name,
                                                            preferred_package)])
    /\ UNCHANGED <<commandVars, packages, available, preferred_package, detectVars, validationVars,
                   course_id, configs, matchVars, resolveVars, variantVars,
                   renderVars, sectionVars, filenameVars, sanitizeVars, loadVars>>

NextFind == CallFindTemplate \/ CallFindTemplateWithPreference
SpecFind == InitFind /\ [][NextFind]_vars

\* --- render_template, with the detection of the installed package ---
InitImport ==
    /\ context \in ImportContexts
    /\ template_type \in {Lecture, Assignment}
    /\ template_statuses \in DetectEnvs
    /\ disk \in DirsOver(DetectEntries)
    /\ templates_dir \in TemplatesDirs
    /\ installed_info = None /\ rendered = None /\ load_result = None
    /\ IdleCourse /\ IdleMatch /\ IdleConfigs /\ IdleResolve /\ IdleVariant
    /\ IdleSections /\ IdleFilename /\ IdleSanitize
    /\ IdleDiscovery /\ IdleValidation
    /\ IdleCommands

CallRenderTemplateDetecting ==
    /\ rendered = None
    /\ installed_info' = GetInstalledTemplateInfo(template_statuses, disk, templates_dir)
    /\ rendered' = Some(RenderTemplate(context, template_type, installed_info'))
    /\ UNCHANGED <<commandVars, discoveryVars, detectVars, validationVars, course_id, configs,
                   context, template_type, matchVars, resolveVars, variantVars,
                   sectionVars, filenameVars, sanitizeVars, loadVars>>

NextImport == CallRenderTemplateDetecting
SpecImport == InitImport /\ [][NextImport]_vars

\* --- validate_template_config: its inputs ---
InitValidateConfig ==
    /\ configs \in {<<c>> : c \in ValidationManifests}
    /\ IdleValidation
    /\ IdleCourse /\ IdleMatch /\ IdleResolve /\ IdleVariant /\ IdleRender
    /\ IdleSections /\ IdleFilename /\ IdleSanitize /\ IdleLoad
    /\ IdleDiscovery /\ IdleDetect
    /\ IdleCommands

CallValidateTemplateConfig ==
    /\ issues = None
    /\ configs /= << >>
    /\ \E r \in ValidateTemplateConfig(configs[1]) : issues' = Some(r)
    /\ UNCHANGED <<commandVars, discoveryVars, detectVars, course_id, configs, matchVars,
                   resolveVars, variantVars, renderVars, sectionVars, filenameVars,
                   sanitizeVars, loadVars, current_version>>


\* --- validate_system ---
InitValidateSystem ==
    /\ disk \in DirsOver(SystemEntries)
    /\ templates_dir \in TemplatesDirs
    /\ template_statuses = << >>
    /\ current_version \in CargoPkgVersions
    /\ issues = None /\ load_result = None
    /\ IdleCourse /\ IdleMatch /\ IdleConfigs /\ IdleResolve /\ IdleVariant
    /\ IdleRender /\ IdleSections /\ IdleFilename /\ IdleSanitize /\ IdleDiscovery
    /\ IdleCommands

CallValidateSystem ==
    /\ issues = None
    /\ \E r \in ValidateSystem(disk, templates_dir, current_version) : issues' = Some(r)
    /\ UNCHANGED <<commandVars, discoveryVars, detectVars, course_id, configs, matchVars,
                   resolveVars, variantVars, renderVars, sectionVars, filenameVars,
                   sanitizeVars, loadVars, current_version>>

NextValidateSystem == CallValidateSystem
SpecValidateSystem == InitValidateSystem /\ [][NextValidateSystem]_vars

\* --- validate_template_config and validate_template_context ---
InitValidateContext ==
    /\ context \in ValidationContexts
    /\ definition \in ContextDefinitions
    /\ variant \in ContextVariants
    /\ template_type = << >> /\ installed_info = None /\ rendered = None
    /\ IdleValidation
    /\ IdleCourse /\ IdleMatch /\ IdleConfigs /\ IdleResolve /\ IdleVariant
    /\ IdleFilename /\ IdleSanitize /\ IdleLoad /\ IdleDiscovery /\ IdleDetect
    /\ IdleCommands

CallValidateTemplateContext ==
    /\ issues = None
    /\ context /= << >>
    /\ issues' = Some(ValidateTemplateContext(context, definition, variant))
    /\ UNCHANGED <<commandVars, discoveryVars, detectVars, course_id, configs, matchVars,
                   resolveVars, variantVars, renderVars, sectionVars, filenameVars,
                   sanitizeVars, loadVars, current_version>>

InitValidate == InitValidateConfig \/ InitValidateContext
NextValidate == CallValidateTemplateConfig \/ CallValidateTemplateContext
SpecValidate == InitValidate /\ [][NextValidate]_vars

\* --- format_semester ---
InitSemester ==
    /\ semester_format \in SemesterFormats
    /\ year \in SemesterYears
    /\ is_spring \in BOOLEAN
    /\ semester = None
    /\ earlier_result = None /\ IdleFiles /\ IdleSearch
    /\ IdleCourse /\ IdleMatch /\ IdleConfigs /\ IdleResolve /\ IdleVariant
    /\ IdleRender /\ IdleSections /\ IdleFilename /\ IdleSanitize /\ IdleLoad
    /\ IdleDiscovery /\ IdleDetect /\ IdleValidation

CallFormatSemester ==
    /\ semester = None
    /\ semester_format /= << >>
    /\ semester' = Some(FormatSemester(semester_format, year, is_spring))
    /\ UNCHANGED <<semester_format, year, is_spring, discoveryVars, detectVars,
                   validationVars, course_id, configs, matchVars, resolveVars,
                   variantVars, renderVars, sectionVars, filenameVars, sanitizeVars,
                   loadVars, earlier_result, fileVars, searchVars>>

NextSemester == CallFormatSemester
SpecSemester == InitSemester /\ [][NextSemester]_vars

\* --- TemplateBuilder ---
\* The builder is the pair of context and template_type.
InitBuilder ==
    /\ date \in Dates
    /\ \E id \in FilenameCourseIds, name \in {<< >>, Lit("Introduction to Programming")} :
         /\ context = TemplateBuilderNew(id, name, Lit("Ada"), date, Lit("2025 Fall"),
                                         Lit("0.1.0")).context
         /\ template_type = TemplateBuilderNew(id, name, Lit("Ada"), date, Lit("2025 Fall"),
                                               Lit("0.1.0")).template_type
    /\ installed_info \in InstalledInfos
    /\ rendered = None /\ custom_title = None /\ filename = None
    /\ earlier_result = None /\ IdleTools
    /\ IdleCourse /\ IdleMatch /\ IdleConfigs /\ IdleResolve /\ IdleVariant
    /\ IdleSections /\ IdleSanitize /\ IdleLoad
    /\ IdleDiscovery /\ IdleDetect /\ IdleValidation

CallWithTitle ==
    /\ filename = None
    /\ template_type /= << >>
    /\ \E title \in SeqsUpTo(TitleAlphabet, MaxInputLen) :
         context' = WithTitle([context |-> context, template_type |-> template_type],
                              title).context
    /\ UNCHANGED <<commandVars, discoveryVars, detectVars, validationVars,
                   course_id, configs, template_type, installed_info, rendered,
                   matchVars, resolveVars, variantVars, sectionVars, filenameVars,
                   sanitizeVars, loadVars>>

CallWithType ==
    /\ filename = None
    /\ template_type /= << >>
    /\ \E tt \in FilenameTypes :
         template_type' = WithType([context |-> context, template_type |-> template_type],
                                   tt).template_type
    /\ UNCHANGED <<commandVars, discoveryVars, detectVars, validationVars,
                   course_id, configs, context, installed_info, rendered,
                   matchVars, resolveVars, variantVars, sectionVars, filenameVars,
                   sanitizeVars, loadVars>>

CallBuildWithFilename ==
    /\ filename = None
    /\ template_type /= << >>
    /\ filename' = Some(BuildWithFilename([context |-> context,
                                           template_type |-> template_type],
                                          date, installed_info))
    /\ UNCHANGED <<commandVars, discoveryVars, detectVars, validationVars,
                   course_id, configs, context, template_type, installed_info, rendered,
                   date, custom_title, matchVars, resolveVars, variantVars, sectionVars,
                   sanitizeVars, loadVars>>

NextBuilder == CallWithTitle \/ CallWithType \/ CallBuildWithFilename
SpecBuilder == InitBuilder /\ [][NextBuilder]_vars

\* --- create_assignment ---
InitAssignment ==
    /\ user_config \in {c \in CommandConfigs : ~c.note_preferences.include_date_in_title
                                            /\ ~c.note_preferences.auto_open}
    /\ notes_fs \in NotesDirs
    /\ last_call = None
    /\ IdleSemester /\ IdleSearch /\ earlier_result = None
    /\ IdleCourse /\ IdleMatch /\ IdleConfigs /\ IdleResolve /\ IdleVariant
    /\ IdleRender /\ IdleSections /\ IdleFilename /\ IdleSanitize /\ IdleLoad
    /\ IdleDiscovery /\ IdleDetect /\ IdleValidation

CallCreateAssignment ==
    /\ user_config /= << >>
    /\ \E id \in CommandCourseIds, title \in AssignmentTitles, env \in CommandEnvs,
          io \in IoOutcomes :
         /\ notes_fs' = CreateAssignment(notes_fs, id, title, user_config, env, io).fs
         /\ last_call' = Some([operation |-> "create_assignment",
                               course_id |-> id, title |-> title,
                               before |-> notes_fs,
                               result |-> CreateAssignment(notes_fs, id, title, user_config,
                                                           env, io).result])
    /\ UNCHANGED <<user_config, semesterVars, searchVars, earlier_result, discoveryVars, detectVars,
                   validationVars, course_id, configs, matchVars, resolveVars,
                   variantVars, renderVars, sectionVars, filenameVars, sanitizeVars,
                   loadVars>>

NextAssignment == CallCreateAssignment
SpecAssignment == InitAssignment /\ [][NextAssignment]_vars

\* --- create_note ---
\* last_call.original keeps, for every file, the content it had when it
\* was first there: before the first call, or after the call that made it.
InitNote ==
    /\ user_config \in NoteConfigs
    /\ notes_fs \in NoteDirs
    /\ last_call = None
    /\ IdleSemester /\ IdleSearch /\ earlier_result = None
    /\ IdleCourse /\ IdleMatch /\ IdleConfigs /\ IdleResolve /\ IdleVariant
    /\ IdleRender /\ IdleSections /\ IdleFilename /\ IdleSanitize /\ IdleLoad
    /\ IdleDiscovery /\ IdleDetect /\ IdleValidation

OriginalAfter(original, files) ==
    [p \in DOMAIN original \cup DOMAIN files |->
       IF p \in DOMAIN original THEN original[p] ELSE files[p]]

CallCreateNote ==
    /\ user_config /= << >>
    /\ \E id \in NoteCourseIds, env \in NoteEnvs, io \in NoteIoOutcomes,
          loaded \in {None} \cup {Some(c) : c \in NoteConfigs} :
         /\ user_config' = IF loaded = None THEN user_config ELSE Unwrap(loaded)
         /\ notes_fs' = CreateNote(notes_fs, id, loaded, env, io).fs
         /\ last_call' =
              Some([operation |-> "create_note", course_id |-> id, title |-> env.today,
                    before |-> notes_fs,
                    result |-> CreateNote(notes_fs, id, loaded, env, io).result,
                    original |-> OriginalAfter(IF last_call = None THEN notes_fs.files
                                               ELSE Unwrap(last_call).original,
                                               CreateNote(notes_fs, id, loaded, env, io).fs.files)])
    /\ UNCHANGED <<semesterVars, searchVars, earlier_result, discoveryVars, detectVars,
                   validationVars, course_id, configs, matchVars, resolveVars,
                   variantVars, renderVars, sectionVars, filenameVars, sanitizeVars,
                   loadVars>>

NextNote == CallCreateNote
SpecNote == InitNote /\ [][NextNote]_vars

\* --- search_in_directory ---
InitSearch ==
    /\ search_dir \in SearchDirs
    /\ search_query \in Queries
    /\ search_options \in SearchOptionsPool
    /\ search_results = None
    /\ IdleSemester /\ IdleFiles /\ earlier_result = None
    /\ IdleCourse /\ IdleMatch /\ IdleConfigs /\ IdleResolve /\ IdleVariant
    /\ IdleRender /\ IdleSections /\ IdleFilename /\ IdleSanitize /\ IdleLoad
    /\ IdleDiscovery /\ IdleDetect /\ IdleValidation

CallSearchInDirectory ==
    /\ search_results = None
    /\ search_options /= << >>
    /\ search_results' = Some(SearchInDirectory(search_dir, search_query, search_options))
    /\ UNCHANGED <<search_dir, search_query, search_options, semesterVars, fileVars,
                   earlier_result, discoveryVars, detectVars,
                   validationVars, course_id, configs, matchVars, resolveVars,
                   variantVars, renderVars, sectionVars, filenameVars, sanitizeVars,
                   loadVars>>

NextSearch == CallSearchInDirectory
SpecSearch == InitSearch /\ [][NextSearch]_vars

-----------------------------------------------------------------------------
(* Properties                                                              *)

\* The entries of one manifest's course_mapping that match a course id:
\* the exact key, and every key that matches as a pattern.
MatchingKeys(cfg, id) ==
    IF cfg.course_mapping = None
    THEN {}
    ELSE {k \in DOMAIN Unwrap(cfg.course_mapping) : k = id \/ MatchesCoursePattern(id, k)}

MatchingManifests == {i \in DOMAIN configs : MatchingKeys(configs[i], course_id) /= {}}

FirstMatchingManifest == CHOOSE i \in MatchingManifests : \A j \in MatchingManifests : i <= j

MappedTypes(cfg, keys) == {Unwrap(cfg.course_mapping)[k] : k \in keys}

\* C1: resolve_course_type returns a type that the first manifest in load
\* order with a matching entry (exact key or pattern) gives to the course
\* id, whatever later manifests hold, and it returns the fallback, through
\* its fallback return, exactly when no manifest has a matching entry.
C1_FirstMatchingManifestWins ==
    resolved /= None =>
        IF MatchingManifests = {}
        THEN Unwrap(resolved).via = "fallback" /\ Unwrap(resolved).value = fallback
        ELSE /\ Unwrap(resolved).via /= "fallback"
             /\ Unwrap(resolved).value \in
                    MappedTypes(configs[FirstMatchingManifest],
                                MatchingKeys(configs[FirstMatchingManifest], course_id))

\* C1 witness: two manifests match, and the call returned the first one's
\* type although the later one gives the course id another type.
C1_Witness ==
    /\ resolved /= None
    /\ \E j \in MatchingManifests :
         /\ j > FirstMatchingManifest
         /\ Unwrap(resolved).value \notin
                MappedTypes(configs[j], MatchingKeys(configs[j], course_id))

\* C2: matches_course_pattern is true iff the course id and the pattern have
\* the same length (str::len, as the code measures it) and every char of
\* the pattern is x, X or the course id's char at that position.
C2_PatternMatchContract ==
    matches_result /= None =>
        (Unwrap(matches_result) <=>
            /\ StrLen(course_id) = StrLen(pattern)
            /\ \A i \in 1..Len(pattern) :
                 \/ pattern[i] \in {"x", "X"}
                 \/ (i <= Len(course_id) /\ pattern[i] = course_id[i]))

\* C2, with the length read as the number of chars.
C2_PatternMatchContractByChars ==
    matches_result /= None =>
        (Unwrap(matches_result) <=>
            /\ Len(course_id) = Len(pattern)
            /\ \A i \in 1..Len(pattern) :
                 pattern[i] \in {"x", "X"} \/ pattern[i] = course_id[i])

\* C2, on ASCII strings only: there the byte length is the char count and
\* the contract holds.
C2_AsciiContract ==
    (matches_result /= None /\ "U+00E9" \notin Range(course_id) \cup Range(pattern)) =>
        (Unwrap(matches_result) <=>
            /\ Len(course_id) = Len(pattern)
            /\ \A i \in 1..Len(pattern) :
                 pattern[i] \in {"x", "X"} \/ pattern[i] = course_id[i])

\* C3: when the first matching manifest has the course id as an exact key,
\* the call returns that key's type even if patterns of the same mapping
\* match too; when it has only matching patterns, the call returns one of
\* their types, even if a later manifest has the exact key.
C3_ExactPreferredWithinManifest ==
    (resolved /= None /\ MatchingManifests /= {}) =>
        LET m == Unwrap(configs[FirstMatchingManifest].course_mapping)
        IN  IF course_id \in DOMAIN m
            THEN Unwrap(resolved) = [value |-> m[course_id], via |-> "exact"]
            ELSE /\ Unwrap(resolved).via = "pattern"
                 /\ Unwrap(resolved).value \in
                        {m[k] : k \in {k \in DOMAIN m : MatchesCoursePattern(course_id, k)}}

\* C3 witness: the first matching manifest maps the course id exactly and
\* also through a pattern that gives another type; the exact type came back.
C3_Witness ==
    /\ resolved /= None
    /\ MatchingManifests /= {}
    /\ LET m == Unwrap(configs[FirstMatchingManifest].course_mapping)
       IN  /\ course_id \in DOMAIN m
           /\ \E k \in DOMAIN m : /\ k /= course_id
                                  /\ MatchesCoursePattern(course_id, k)
                                  /\ m[k] /= m[course_id]
           /\ Unwrap(resolved).value = m[course_id]

\* C3, the case across manifests: an earlier manifest matches by pattern
\* only, a later one has the exact key with another type, and the earlier
\* manifest's type came back.
C3_CrossManifestCase ==
    /\ resolved /= None
    /\ MatchingManifests /= {}
    /\ \E i, j \in DOMAIN configs :
         /\ i = FirstMatchingManifest /\ i < j
         /\ configs[j].course_mapping /= None
         /\ course_id \notin DOMAIN Unwrap(configs[i].course_mapping)
         /\ course_id \in DOMAIN Unwrap(configs[j].course_mapping)
         /\ Unwrap(configs[j].course_mapping)[course_id] /= Unwrap(resolved).value

\* The positions <<manifest, variant>> of the variants that qualify for
\* template_name and course_type.
Qualifying ==
    UNION {{<<i, j>> :
              j \in {j \in DOMAIN Unwrap(configs[i].variants) :
                       LET v == Unwrap(configs[i].variants)[j]
                       IN  /\ v.template = template_name
                           /\ \E t \in DOMAIN v.course_types :
                                v.course_types[t] \in {course_type, Lit("all")}}} :
           i \in {i \in DOMAIN configs : configs[i].variants /= None}}

Before(p, q) == p[1] < q[1] \/ (p[1] = q[1] /\ p[2] <= q[2])

FirstQualifying == CHOOSE p \in Qualifying : \A q \in Qualifying : Before(p, q)

VariantAt(p) == Unwrap(configs[p[1]].variants)[p[2]]

\* C4: find_best_variant returns the first variant, in manifest order then
\* declaration order, whose template is the name asked for and whose
\* course_types holds the course type or "all"; none when there is none.
\* A variant for ["physics"] alone is returned only for course type physics.
C4_FirstQualifyingVariant ==
    best_variant /= None =>
        /\ IF Qualifying = {}
           THEN Unwrap(best_variant) = None
           ELSE Unwrap(best_variant) = Some(VariantAt(FirstQualifying))
        /\ \A v \in Range(Unwrap(best_variant)) :
             v.course_types = <<Lit("physics")>> => course_type = Lit("physics")

\* C4 witness: variants of two manifests qualify and differ, the earlier
\* one qualifies through "all" for a course type it does not list, and it
\* is the one returned.
C4_Witness ==
    /\ best_variant /= None
    /\ \E p, q \in Qualifying :
         /\ p[1] < q[1]
         /\ VariantAt(p) /= VariantAt(q)
         /\ VariantAt(p).course_types = <<Lit("all")>>
         /\ course_type /= Lit("all")
         /\ Unwrap(best_variant) = Some(VariantAt(p))

\* Reading a rendered document back: the chunks after / before the first
\* occurrence of a literal chunk.
IndexOf(text, chunk) ==
    IF \E i \in DOMAIN text : text[i] = chunk
    THEN CHOOSE i \in DOMAIN text : text[i] = chunk /\ \A j \in 1..(i - 1) : text[j] /= chunk
    ELSE 0

TextAfter(text, chunk) ==
    IF IndexOf(text, chunk) = 0
    THEN << >>
    ELSE SubSeq(text, IndexOf(text, chunk) + 1, Len(text))

TextBefore(text, chunk) ==
    IF IndexOf(text, chunk) = 0 THEN text ELSE SubSeq(text, 1, IndexOf(text, chunk) - 1)

\* The value between the quotes of the header's course-name parameter.
CourseNameParam(doc) ==
    TextBefore(TextAfter(doc, "\",\n  course-name: \""), "\",\n  title: \"")

\* The document after the header's closing parenthesis and the separating
\* newline.
BodyOf(doc) == Tail(TextAfter(doc, "\"\n)"))

\* The blocks of a body: each starts at a heading marker, its name runs to
\* the end of the heading line, its content to the next heading marker.
RECURSIVE ParseBlocks(_)
ParseBlocks(body) ==
    IF body = << >>
    THEN << >>
    ELSE IF Head(body) /= "\n= " \/ IndexOf(Tail(body), "\n") = 0
         THEN <<[name |-> <<"not a heading">>, content |-> body]>>
         ELSE LET line == TextBefore(Tail(body), "\n")
                  rest == TextAfter(Tail(body), "\n")
                  next == IndexOf(rest, "\n= ")
              IN  IF next = 0
                  THEN <<[name |-> line, content |-> rest]>>
                  ELSE <<[name |-> line, content |-> SubSeq(rest, 1, next - 1)]>>
                       \o ParseBlocks(SubSeq(rest, next, Len(rest)))

RenderedDoc == Unwrap(rendered).value

HasCallout(tt, name) ==
    \/ tt.kind = "Lecture" /\ name \in LectureCallouts
    \/ tt.kind = "Assignment" /\ name \in AssignmentCallouts

\* C5: the header's course-name parameter is course_id when the context's
\* course_name is empty and course_name otherwise; it is empty only when
\* course_id is empty.
C5_HeaderCourseNameFallback ==
    rendered /= None =>
        /\ Unwrap(rendered).ok
        /\ context.course_name = << >> => CourseNameParam(RenderedDoc) = context.course_id
        /\ context.course_name /= << >> => CourseNameParam(RenderedDoc) = context.course_name
        /\ CourseNameParam(RenderedDoc) = << >> => context.course_id = << >>

\* C5 witness: a context with an empty course_name and a course id was
\* rendered, and the header carries the course id as the course name.
C5_Witness ==
    /\ rendered /= None
    /\ context.course_name = << >>
    /\ context.course_id /= << >>
    /\ CourseNameParam(RenderedDoc) = context.course_id

\* C6: the rendered body has one block per entry of context.sections, in
\* order, duplicates kept; each block's heading is the section name, and
\* its content is a callout exactly for the lecture names under Lecture and
\* the assignment names under Assignment, and blank otherwise.
C6_OneBlockPerSection ==
    rendered /= None =>
        LET blocks == ParseBlocks(BodyOf(RenderedDoc))
        IN  /\ Len(blocks) = Len(context.sections)
            /\ \A i \in DOMAIN context.sections :
                 /\ blocks[i].name = context.sections[i]
                 /\ IF HasCallout(template_type, context.sections[i])
                    THEN blocks[i].content /= Lit("\n\n") /\ Len(blocks[i].content) = 1
                    ELSE blocks[i].content = Lit("\n\n")

\* C6 witness: a section list that names a lecture callout twice and was
\* rendered under a custom category, so that both blocks are blank.
C6_Witness ==
    /\ rendered /= None
    /\ template_type.kind = "Custom"
    /\ Len(context.sections) = 2
    /\ context.sections[1] = context.sections[2]
    /\ context.sections[1] \in LectureCallouts
    /\ LET blocks == ParseBlocks(BodyOf(RenderedDoc))
       IN  Len(blocks) = 2 /\ blocks[1].content = Lit("\n\n")

\* C6, the callout case: a lecture rendered with a callout section.
C6_CalloutCase ==
    /\ rendered /= None
    /\ template_type.kind = "Lecture"
    /\ \E i \in DOMAIN context.sections : context.sections[i] = Lit("Summary")

HeadingNames(doc) ==
    [i \in DOMAIN ParseBlocks(BodyOf(doc)) |-> ParseBlocks(BodyOf(doc))[i].name]

OverridesAndAdds ==
    /\ variant /= None
    /\ IsSome(Unwrap(variant).additional_sections)
    /\ IsSome(Unwrap(variant).override_sections)
    /\ Unwrap(Unwrap(variant).override_sections) /= << >>

\* C7: when the variant has additional_sections and non-empty
\* override_sections, the rendered document's sections are exactly the
\* override_sections.
C7_OverrideSectionsWin ==
    (rendered /= None /\ OverridesAndAdds) =>
        HeadingNames(RenderedDoc) = Unwrap(Unwrap(variant).override_sections)

\* C7 witness: a rendered variant with non-empty defaults, additions and
\* overrides, where the overrides differ from defaults plus additions.
C7_Witness ==
    /\ rendered /= None
    /\ OverridesAndAdds
    /\ definition.default_sections /= << >>
    /\ Unwrap(Unwrap(variant).additional_sections) /= << >>
    /\ Unwrap(Unwrap(variant).override_sections) /=
           definition.default_sections \o Unwrap(Unwrap(variant).additional_sections)
    /\ HeadingNames(RenderedDoc) = Unwrap(Unwrap(variant).override_sections)

\* The name segment the claim gives each kind of template.
FilenameSegment ==
    CASE template_type.kind = "Lecture" -> <<"l", "e", "c", "t", "u", "r", "e">>
      [] template_type.kind = "Assignment" /\ IsSome(custom_title) ->
            SanitizeFilename(Unwrap(custom_title))
      [] template_type.kind = "Assignment" /\ custom_title = None ->
            <<"a", "s", "s", "i", "g", "n", "m", "e", "n", "t">>
      [] template_type.kind = "Custom" -> SanitizeFilename(template_type.name)

\* C8: generate_filename yields {date}-{course_id}-{segment}.typ, where the
\* segment is lecture, the sanitized title, assignment (no title) or the
\* sanitized custom name.
C8_FilenameShape ==
    filename /= None =>
        /\ Unwrap(filename).ok
        /\ Unwrap(filename).value =
               date \o <<"-">> \o course_id \o <<"-">> \o FilenameSegment \o DotTyp

\* C8 witness: an assignment whose title sanitization changes, named after
\* the sanitized title.
C8_Witness ==
    /\ filename /= None
    /\ template_type.kind = "Assignment"
    /\ IsSome(custom_title)
    /\ SanitizeFilename(Unwrap(custom_title)) /= Unwrap(custom_title)
    /\ SanitizeFilename(Unwrap(custom_title)) /= << >>

NoStrayDashes(s) ==
    /\ s /= << >> => (Head(s) /= "-" /\ s[Len(s)] /= "-")
    /\ \A i \in 1..(Len(s) - 1) : ~(s[i] = "-" /\ s[i + 1] = "-")

\* C9: sanitizing a sanitized name changes nothing, and no sanitized name
\* has two dashes in a row, a leading dash or a trailing dash.
C9_SanitizeIdempotent ==
    sanitized /= None =>
        /\ Unwrap(sanitized).validator_twice = Unwrap(sanitized).validator
        /\ Unwrap(sanitized).utils_twice = Unwrap(sanitized).utils
        /\ NoStrayDashes(Unwrap(sanitized).validator)
        /\ NoStrayDashes(Unwrap(sanitized).utils)

\* C9 witness: an input that starts and ends with chars that become dashes
\* and has two of them in a row, sanitized to a non-empty name.
C9_Witness ==
    /\ sanitized /= None
    /\ Len(input) >= 3
    /\ SanitizeChar(input[1]) = "-"
    /\ SanitizeChar(input[Len(input)]) = "-"
    /\ \E i \in 1..(Len(input) - 1) :
         SanitizeChar(input[i]) = "-" /\ SanitizeChar(input[i + 1]) = "-"
    /\ Unwrap(sanitized).validator /= << >>

\* The manifests of the package roots on disk that parse, in scan order.
Parses(pkg) == Unwrap(pkg.manifest).parses
ConfigOf(pkgs) == [i \in DOMAIN pkgs |-> Unwrap(pkgs[i].manifest).config]
ParseableManifests(d) == ConfigOf(SelectSeq(FindAllTemplatePackages(d).value, Parses))

\* C10: load_template_configs succeeds and returns every manifest on disk
\* that parses, also when another package's manifest does not parse.
C10_LoadIsResilientPerPackage ==
    load_result /= None =>
        /\ Unwrap(load_result).ok
        /\ Unwrap(load_result).value = ParseableManifests(disk)

\* C10, without corrupt manifests: the load returns every manifest on disk.
C10_LoadReturnsAllWhenNoneCorrupt ==
    (load_result /= None /\ SelectSeq(FindAllTemplatePackages(disk).value, Parses)
                             = FindAllTemplatePackages(disk).value) =>
        /\ Unwrap(load_result).ok
        /\ Unwrap(load_result).value = ParseableManifests(disk)

\* The directories of a listing that hold a manifest file.
ManifestDirs(entries) ==
    {i \in DOMAIN entries : entries[i].is_dir /\ entries[i].manifest /= None}

\* The immediate subdirectories of the packages directory that hold a
\* manifest, and the subdirectories one level below an immediate
\* subdirectory that hold one.
TopLevelRoots(d) == {<<d.entries[i].name>> : i \in ManifestDirs(d.entries)}
VersionRoots(d) ==
    UNION {{<<d.entries[i].name, d.entries[i].versions[j].name>> :
              j \in ManifestDirs(d.entries[i].versions)} :
           i \in {k \in DOMAIN d.entries : d.entries[k].is_dir}}
ReportedRoots == {r.path : r \in Range(Unwrap(packages).value)}

\* The manifests that lie deeper than one level below an immediate
\* subdirectory.
DeeperManifests(d) ==
    {<<i, j, k>> \in (DOMAIN d.entries) \X (1..2) \X (1..1) :
        /\ j \in DOMAIN d.entries[i].versions
        /\ k \in ManifestDirs(d.entries[i].versions[j].versions)}

\* C11: the scan reports exactly the immediate subdirectories that hold a
\* manifest and the subdirectories one level below an immediate subdirectory
\* that hold one; it reports no directory nested deeper.
C11_ScanFindsBothLayouts ==
    packages /= None =>
        /\ Unwrap(packages).ok
        /\ ReportedRoots = TopLevelRoots(disk) \cup VersionRoots(disk)
        /\ \A p \in ReportedRoots : Len(p) <= 2

\* C11 witness: one scan reports a package in each layout while a manifest
\* lies one level deeper still.
C11_Witness ==
    /\ packages /= None
    /\ \E p, q \in ReportedRoots : Len(p) = 1 /\ Len(q) = 2
    /\ DeeperManifests(disk) /= {}

\* The templates declared by the manifests of the package roots on disk, in
\* scan order then declaration order, each with the directory its manifest
\* is in.
RECURSIVE DeclaredFrom(_, _)
DeclaredFrom(dirs, i) ==
    IF i > Len(dirs)
    THEN << >>
    ELSE [j \in DOMAIN Unwrap(dirs[i].manifest).config.templates |->
            [definition |-> Unwrap(dirs[i].manifest).config.templates[j],
             root |-> dirs[i].path]]
         \o DeclaredFrom(dirs, i + 1)
Declared(d) == DeclaredFrom(FindAllTemplatePackages(d).value, 1)

\* C12: every AvailableTemplate carries the path of definition.file inside
\* the root of the package whose manifest declares the definition, and
\* is_accessible tells whether that path exists.
C12_FilePathInOwningPackage ==
    (available /= None /\ Unwrap(available).ok) =>
        /\ Len(Unwrap(available).value) = Len(Declared(disk))
        /\ \A k \in DOMAIN Unwrap(available).value :
             LET t == Unwrap(available).value[k]
                 owner == Declared(disk)[k]
             IN  /\ t.definition = owner.definition
                 /\ t.file_path = owner.root \o <<owner.definition.file>>
                 /\ t.is_accessible = PathExists(disk, owner.root \o <<owner.definition.file>>)

\* Two package roots whose manifests carry the same name and version.
SameIdentity(a, b) ==
    /\ Unwrap(a.manifest).config.metadata.name = Unwrap(b.manifest).config.metadata.name
    /\ Unwrap(a.manifest).config.metadata.version
         = Unwrap(b.manifest).config.metadata.version
IdentitiesDistinct(d) ==
    LET dirs == FindAllTemplatePackages(d).value
    IN  \A i, j \in DOMAIN dirs : SameIdentity(dirs[i], dirs[j]) => i = j

\* C12, for packages that differ in name or version: the paths and the
\* accessibility flags are those of the owning package.
C12_FilePathWhenIdentitiesDistinct ==
    (available /= None /\ Unwrap(available).ok /\ IdentitiesDistinct(disk)) =>
        C12_FilePathInOwningPackage

\* C12 case: two packages side by side, with distinct identities, one of
\* them lacking a declared file.
C12_SideBySideCase ==
    /\ available /= None /\ Unwrap(available).ok
    /\ IdentitiesDistinct(disk)
    /\ Len(FindAllTemplatePackages(disk).value) = 2
    /\ \E k, l \in DOMAIN Unwrap(available).value :
         /\ Unwrap(available).value[k].is_accessible
         /\ ~Unwrap(available).value[l].is_accessible

\* The manifests that define a template of a name, and the places in one
\* manifest where it does.
Defining(cfgs, name) ==
    {i \in DOMAIN cfgs : \E j \in DOMAIN cfgs[i].templates : cfgs[i].templates[j].name = name}
DeclarationsOf(cfg, name) == {j \in DOMAIN cfg.templates : cfg.templates[j].name = name}
Least(S) == CHOOSE m \in S : \A n \in S : m <= n

\* What "first in manifest order, then declaration order" denotes.
FirstDeclaration(cfgs, name) ==
    IF Defining(cfgs, name) = {}
    THEN None
    ELSE LET i == Least(Defining(cfgs, name))
             j == Least(DeclarationsOf(cfgs[i], name))
         IN  Some([definition |-> cfgs[i].templates[j], config |-> cfgs[i],
                   config_index |-> i, template_index |-> j])

FoundBy(fn) == found /= None /\ Unwrap(found).by = fn

\* C13: find_template returns the first definition of the name, in manifest
\* order then declaration order, with the manifest that owns it; it returns
\* none exactly when no manifest defines the name.
C13_FindTemplateFirstMatch ==
    FoundBy("find_template") =>
        /\ Unwrap(found).result = FirstDeclaration(configs, template_name)
        /\ (Unwrap(found).result = None) <=> (Defining(configs, template_name) = {})

\* C13 witness: two manifests define the name, the first of them twice, and
\* the first declaration of the first manifest is returned.
C13_Witness ==
    /\ FoundBy("find_template")
    /\ Cardinality(Defining(configs, template_name)) >= 2
    /\ Cardinality(DeclarationsOf(configs[1], template_name)) >= 2
    /\ Unwrap(Unwrap(found).result).config_index = 1
    /\ Unwrap(Unwrap(found).result).template_index = 1

\* The manifests of the preferred package that define the name.
PreferredDefining(cfgs, name, preferred) ==
    {i \in Defining(cfgs, name) :
        IsSome(preferred) /\ cfgs[i].metadata.name = Unwrap(preferred)}

\* C14: when a manifest of the preferred package defines the name, the
\* result is that name's definition in a manifest of the preferred package;
\* otherwise the result is that of find_template.
C14_PreferredPackageFirst ==
    FoundBy("find_template_with_preference") =>
        LET r == Unwrap(found).result
        IN  IF PreferredDefining(configs, template_name, preferred_package) /= {}
            THEN /\ IsSome(r)
                 /\ Unwrap(r).config_index
                      \in PreferredDefining(configs, template_name, preferred_package)
                 /\ Unwrap(r).config = configs[Unwrap(r).config_index]
                 /\ Unwrap(r).config.metadata.name = Unwrap(preferred_package)
                 /\ Unwrap(r).definition
                      = configs[Unwrap(r).config_index].templates[Unwrap(r).template_index]
                 /\ Unwrap(r).definition.name = template_name
            ELSE r = FirstDeclaration(configs, template_name)

\* C14 witness: an earlier manifest of another package defines the name and
\* the result comes from the later manifest of the preferred package.
C14_Witness ==
    /\ FoundBy("find_template_with_preference")
    /\ 1 \in Defining(configs, template_name)
    /\ 1 \notin PreferredDefining(configs, template_name, preferred_package)
    /\ IsSome(Unwrap(found).result)
    /\ Unwrap(Unwrap(found).result).config_index = 2

\* C14 case: a preferred package is given, none of its manifests defines the
\* name, and the result falls back to another package's definition.
C14_FallbackCase ==
    /\ FoundBy("find_template_with_preference")
    /\ IsSome(preferred_package)
    /\ PreferredDefining(configs, template_name, preferred_package) = {}
    /\ IsSome(Unwrap(found).result)

\* The import statement of a rendered document: the text before the blank
\* line that precedes the show rule.
ImportOf(doc) == TextBefore(doc, "\n\n#show: ")
ImportNaming(name, version) ==
    <<"#import \"@local/">> \o name \o <<":">> \o version \o <<"\":", "*">>

\* The versions a typst.toml declares: the non-empty text between the quotes
\* of a version line.
DeclaredVersions(lines) ==
    {v \in UNION {{<<lines[i][k]>> : k \in DOMAIN lines[i]} : i \in DOMAIN lines} :
        \E i \in DOMAIN lines, q \in {"\"", "'"} : lines[i] = VersionLine(q, v)}

\* The packages installed in a directory: each subdirectory with a typst.toml
\* that declares a version, under the subdirectory's name.
InstalledIn(dir) ==
    IF ~dir.exists
    THEN {}
    ELSE UNION {{<<dir.entries[i].name, v>> :
                   v \in DeclaredVersions(dir.entries[i].files[TypstTomlName])} :
                i \in {k \in DOMAIN dir.entries :
                         /\ dir.entries[k].is_dir
                         /\ TypstTomlName \in DOMAIN dir.entries[k].files}}

\* The packages the template status reports as installed.
InstalledByStatus(env) ==
    IF ~env.check_template_status.ok
    THEN {}
    ELSE {<<NormalizePackageName(s[1]), Unwrap(s[2])>> :
            s \in {t \in Range(env.check_template_status.value) : IsSome(t[2])}}

\* What the detection can find: nothing without the user configuration,
\* else the installed packages of the status and of the two directories.
Detectable ==
    IF ~template_statuses.get_config
    THEN {}
    ELSE InstalledByStatus(template_statuses) \cup InstalledIn(disk)
         \cup InstalledIn(templates_dir)

C15_ConfiguredCase ==
    /\ rendered /= None /\ template_statuses /= << >>
    /\ Detectable = {}
    /\ context.template_version = Lit("0.3.0")
    /\ ImportOf(RenderedDoc) = ImportNaming(Lit("dtu-template"), Lit("0.3.0"))

\* C15 case: the status reports an installed package and its normalized
\* name and version are imported.
C15_StatusCase ==
    /\ rendered /= None /\ template_statuses /= << >>
    /\ ImportOf(RenderedDoc) = ImportNaming(<<"d", "t", "u", "-", "t">>, Lit("0.3.0"))
    /\ context.template_version = Lit("0.1.0")

\* The defects of a manifest, each named by the part of the manifest, the
\* index or the mapping key of the offending entry, what is wrong, and the
\* index of the offending course type. A text is missing when it is empty
\* or blank.
Missing(text) == \A k \in DOMAIN text : text[k] = Blank
MetadataDefects(m) ==
    {<<"metadata", 0, << >>, d, 0>> : d \in
        {x \in {"name missing", "version missing", "version not semver"} :
            \/ x = "name missing" /\ Missing(m.name)
            \/ x = "version missing" /\ Missing(m.version)
            \/ x = "version not semver" /\ ~IsSemver(m.version)}}
DefinitionDefects(t) ==
    {x \in {"name missing", "file missing", "function missing", "file not .typ"} :
        \/ x = "name missing" /\ Missing(t.name)
        \/ x = "file missing" /\ Missing(t.file)
        \/ x = "function missing" /\ Missing(t.function)
        \/ x = "file not .typ" /\ ~EndsWithTyp(t.file)}
MissingCourseTypes(t) ==
         (IF IsSome(t.course_types)
          THEN {n \in DOMAIN Unwrap(t.course_types) : Missing(Unwrap(t.course_types)[n])}
          ELSE {})
VariantDefects(v, templates) ==
    {x \in {"base template not found", "name missing", "course_types empty"} :
        \/ x = "base template not found" /\ \A k \in DOMAIN templates :
                                                templates[k].name /= v.template
        \/ x = "name missing" /\ Missing(v.name)
        \/ x = "course_types empty" /\ v.course_types = << >>}
MappingDefects(mapping, key) ==
    {x \in {"pattern missing", "type missing", "pattern malformed"} :
        \/ x = "pattern missing" /\ Missing(key)
        \/ x = "type missing" /\ Missing(mapping[key])
        \/ x = "pattern malformed" /\ ContainsXxx(key) /\ ~EndsWithXxx(key)}
EngineDefects(e) ==
    {x \in {"minimum version not semver", "timeout zero", "concurrency zero"} :
        \/ x = "minimum version not semver"
             /\ ~IsSemver(e.compatibility.minimum_noter_version)
        \/ x = "timeout zero" /\ e.rendering.timeout_seconds = 0
        \/ x = "concurrency zero" /\ e.rendering.max_concurrent = 0}
Defects(config) ==
    MetadataDefects(config.metadata)
    \cup UNION {{<<"template", i, << >>, d, 0>> :
                     d \in DefinitionDefects(config.templates[i])} :
                i \in DOMAIN config.templates}
    \cup UNION {{<<"template", i, << >>, "course type missing", n>> :
                     n \in MissingCourseTypes(config.templates[i])} :
                i \in DOMAIN config.templates}
    \cup (IF IsSome(config.variants)
          THEN UNION {{<<"variant", i, << >>, d, 0>> :
                         d \in VariantDefects(Unwrap(config.variants)[i], config.templates)} :
                      i \in DOMAIN Unwrap(config.variants)}
          ELSE {})
    \cup (IF IsSome(config.course_mapping)
          THEN UNION {{<<"mapping", 0, key, d, 0>> :
                         d \in MappingDefects(Unwrap(config.course_mapping), key)} :
                      key \in DOMAIN Unwrap(config.course_mapping)}
          ELSE {})
    \cup (IF IsSome(config.engine)
          THEN {<<"engine", 0, << >>, d, 0>> : d \in EngineDefects(Unwrap(config.engine))}
          ELSE {})

\* A manifest whose only defects are a template without name, a version
\* that is not semver and a variant without course types.
ThreeDefects(config) ==
    \E i \in DOMAIN config.templates :
        \E k \in 1..2 :
            Defects(config) = {<<"metadata", 0, << >>, "version not semver", 0>>,
                               <<"template", i, << >>, "name missing", 0>>,
                               <<"variant", k, << >>, "course_types empty", 0>>}

IssueList == Unwrap(issues).value
IssuesWith(severity, message) ==
    {k \in DOMAIN IssueList :
        IssueList[k].severity = severity /\ IssueList[k].message = message}

\* C16: validate_template_config reports every defect of the manifest, one
\* issue each; a manifest with the three defects of the claim yields exactly
\* its three issues.
C16_CollectAll ==
    (issues /= None /\ Len(configs) = 1 /\ disk = << >>) =>
        /\ Unwrap(issues).ok
        /\ Len(IssueList) = Cardinality(Defects(configs[1]))
        /\ ThreeDefects(configs[1]) =>
             /\ Len(IssueList) = 3
             /\ IssuesWith(Error, Lit("Template name is required")) /= {}
             /\ IssuesWith(Warning, Lit("Variant should specify course types")) /= {}
             /\ IssuesWith(Warning, Lit("Version '") \o configs[1].metadata.version
                                    \o Lit("' is not a valid semantic version")) /= {}

\* C16 witness: a manifest with exactly the three defects was validated.
C16_Witness ==
    /\ issues /= None /\ Len(configs) = 1 /\ disk = << >>
    /\ ThreeDefects(configs[1])
    /\ Len(IssueList) = 3

\* The manifests validate_system works on, and whether it was called.
Loaded == LoadTemplateConfigs(disk)
SystemValidated == issues /= None /\ disk /= << >>

CrossMessage(name, first, later) ==
    Lit("Template '") \o name
    \o Lit("' is defined in multiple configurations (config ")
    \o <<ToString(first - 1)>> \o Lit(" and ") \o <<ToString(later - 1)>> \o Lit(")")
CrossIssues == {k \in DOMAIN IssueList : IssueList[k].category = "cross_config"}
TemplateNamesOf(cfgs) ==
    UNION {{cfgs[i].templates[j].name : j \in DOMAIN cfgs[i].templates} : i \in DOMAIN cfgs}
DeclarationCount(cfgs, name) ==
    Cardinality({<<i, j>> \in (DOMAIN cfgs) \X (1..2) :
                    j \in DOMAIN cfgs[i].templates /\ cfgs[i].templates[j].name = name})

\* C17: for a template name defined in two or more manifests there is a
\* Warning that names the first manifest defining it and the later one, for
\* every later one; cross-manifest issues are Warnings; when every name is
\* declared once, as in a single manifest with unique names, there is none.
C17_DuplicateNamesWarned ==
    (SystemValidated /\ Loaded.ok) =>
        /\ \A name \in TemplateNamesOf(Loaded.value) :
             \A later \in Defining(Loaded.value, name) \ {Least(Defining(Loaded.value, name))} :
                 \E k \in CrossIssues :
                     /\ IssueList[k].severity = Warning
                     /\ IssueList[k].message
                          = CrossMessage(name, Least(Defining(Loaded.value, name)), later)
        /\ \A k \in CrossIssues : IssueList[k].severity = Warning
        /\ (\A name \in TemplateNamesOf(Loaded.value) :
                DeclarationCount(Loaded.value, name) = 1) => CrossIssues = {}

\* C17 witness: two manifests define lecture and one warning names both.
C17_Witness ==
    /\ SystemValidated /\ Loaded.ok
    /\ Defining(Loaded.value, Lit("lecture")) = {1, 2}
    /\ Cardinality(CrossIssues) = 1
    /\ \E k \in CrossIssues : IssueList[k].message = CrossMessage(Lit("lecture"), 1, 2)

\* C17 case: a single manifest with one template yields no such warning.
C17_SingleManifestCase ==
    /\ SystemValidated /\ Loaded.ok
    /\ Len(Loaded.value) = 1
    /\ TemplateNamesOf(Loaded.value) /= {}
    /\ CrossIssues = {}

\* The "base template not found" issues of the manifest at a place in the
\* load order.
BaseNotFound(i, base) ==
    {k \in DOMAIN IssueList :
        /\ IssueList[k].severity = Error
        /\ IssueList[k].message = Lit("Base template '") \o base \o Lit("' not found")
        /\ IssueList[k].location = Some(Indexed("template_config", i - 1))}
VariantsOf(cfg) == IF IsSome(cfg.variants) THEN Unwrap(cfg.variants) ELSE << >>

\* C18: in validate_system a variant has a "base template not found" Error
\* exactly when no loaded manifest defines a template of the name in the
\* variant's template field.
C18_BaseTemplateAcrossManifests ==
    (SystemValidated /\ Loaded.ok) =>
        \A i \in DOMAIN Loaded.value :
            \A k \in DOMAIN VariantsOf(Loaded.value[i]) :
                (BaseNotFound(i, VariantsOf(Loaded.value[i])[k].template) /= {})
                    <=> (Defining(Loaded.value, VariantsOf(Loaded.value[i])[k].template) = {})

\* C18, within one manifest: a variant has the Error exactly when its own
\* manifest does not define the template.
C18_BaseTemplateWithinManifest ==
    (SystemValidated /\ Loaded.ok) =>
        \A i \in DOMAIN Loaded.value :
            \A k \in DOMAIN VariantsOf(Loaded.value[i]) :
                (BaseNotFound(i, VariantsOf(Loaded.value[i])[k].template) /= {})
                    <=> (DeclarationsOf(Loaded.value[i],
                                        VariantsOf(Loaded.value[i])[k].template) = {})

\* C18 case: a variant whose template is defined only by another loaded
\* manifest.
C18_CrossReferenceCase ==
    /\ SystemValidated /\ Loaded.ok
    /\ \E i \in DOMAIN Loaded.value :
         \E k \in DOMAIN VariantsOf(Loaded.value[i]) :
            /\ DeclarationsOf(Loaded.value[i], VariantsOf(Loaded.value[i])[k].template) = {}
            /\ Defining(Loaded.value, VariantsOf(Loaded.value[i])[k].template) /= {}

\* The issues of a category with a message that starts with a text.
IssuesAbout(category, start) ==
    {k \in DOMAIN IssueList :
        /\ IssueList[k].category = category
        /\ Head(IssueList[k].message) = start}

\* C20: validate_system returns an issue list, never an error; when the
\* manifests cannot be loaded the list has an Error for the load failure,
\* and it has the file-system issues in any case.
C20_LoadFailureIsAnIssue ==
    SystemValidated =>
        /\ Unwrap(issues).ok
        /\ ~Loaded.ok =>
             \E k \in IssuesAbout("configuration", "Failed to load template configurations: ") :
                 IssueList[k].severity = Error
        /\ ~templates_dir.exists <=>
             IssuesAbout("file_system", "Template directory does not exist: ") /= {}
        /\ ~disk.exists <=>
             IssuesAbout("file_system", "Typst packages directory does not exist: ") /= {}

\* C20 witness: a manifest does not parse, the templates directory is
\* missing, and the returned list reports both.
C20_Witness ==
    /\ SystemValidated
    /\ ~Loaded.ok
    /\ ~templates_dir.exists
    /\ Unwrap(issues).ok
    /\ IssuesAbout("configuration", "Failed to load template configurations: ") /= {}
    /\ IssuesAbout("file_system", "Template directory does not exist: ") /= {}

\* The severity the defect classes have: for each class the part of the
\* manifest and the defect, the category and the first text of the message
\* of its issue, and the severity.
Class(area, kind, category, start, severity) ==
    [area |-> area, kind |-> kind, category |-> category, start |-> start,
     severity |-> severity]
SeverityClasses ==
    {Class("metadata", "name missing", "metadata", "Template package name is required", Error),
     Class("metadata", "version missing", "metadata",
           "Template package version is required", Error),
     Class("template", "name missing", "template", "Template name is required", Error),
     Class("template", "file missing", "template", "Template file path is required", Error),
     Class("template", "function missing", "template",
           "Template function name is required", Error),
     Class("variant", "base template not found", "variant", "Base template '", Error),
     Class("metadata", "version not semver", "metadata", "Version '", Warning),
     Class("template", "file not .typ", "template", "Template file '", Warning),
     Class("variant", "course_types empty", "variant",
           "Variant should specify course types", Warning),
     Class("mapping", "pattern missing", "course_mapping", "Empty course pattern found",
           Warning),
     Class("mapping", "type missing", "course_mapping", "Empty course type for pattern '",
           Warning),
     Class("engine", "timeout zero", "engine", "Rendering timeout is set to 0 seconds",
           Warning),
     Class("engine", "concurrency zero", "engine", "Max concurrent processing is set to 0",
           Warning),
     Class("mapping", "pattern malformed", "course_mapping", "Pattern '", Info)}

IssuesOfClass(c) == IssuesAbout(c.category, c.start)
DefectsOfClass(config, c) == {d \in Defects(config) : d[1] = c.area /\ d[4] = c.kind}
ConfigValidated == issues /= None /\ Len(configs) = 1 /\ disk = << >>
ContextValidated == issues /= None /\ context /= << >> /\ definition /= << >>
NoSections == definition.default_sections = << >> /\ context.sections = << >>

\* C19: each defect of a class is reported with the severity of its class,
\* an issue of a class is reported only for a defect of the class, and a
\* context without sections for a definition without default sections is
\* reported as Info.
C19_SeverityFollowsDefectClass ==
    /\ ConfigValidated =>
         \A c \in SeverityClasses :
            /\ Cardinality(IssuesOfClass(c)) = Cardinality(DefectsOfClass(configs[1], c))
            /\ \A k \in IssuesOfClass(c) : IssueList[k].severity = c.severity
    /\ ContextValidated =>
         /\ NoSections <=> IssuesAbout("sections", "Template '") /= {}
         /\ \A k \in IssuesAbout("sections", "Template '") : IssueList[k].severity = Info

\* C19 witness: one manifest with a defect of each severity was validated:
\* a missing package name, a version that is not semver, a malformed
\* mapping pattern.
C19_Witness ==
    /\ ConfigValidated
    /\ \E k \in IssuesAbout("metadata", "Template package name is required") :
         IssueList[k].severity = Error
    /\ \E k \in IssuesAbout("metadata", "Version '") : IssueList[k].severity = Warning
    /\ \E k \in IssuesAbout("course_mapping", "Pattern '") : IssueList[k].severity = Info

\* C19 case: a context without sections was validated against a definition
\* without default sections.
C19_NoSectionsCase ==
    /\ ContextValidated
    /\ NoSections
    /\ \E k \in IssuesAbout("sections", "Template '") : IssueList[k].severity = Info

\* The place of a semver version in the order of versions, as one number:
\* major, minor and patch weigh in that order, and a pre-release comes
\* just before the version it leads to.
VersionRank(v) ==
    LET base == MaxVersionNumber + 1
        core == (DigitValue(v[1]) * base + DigitValue(v[3])) * base + DigitValue(v[5])
    IN  core * (base + 1) + (IF Len(v) = 7 THEN DigitValue(v[7]) ELSE base)

\* The manifests of the load that ask for a newer build than the running
\* one, and the compatibility issues that name a package.
MinimumOf(c) == Unwrap(c.engine).compatibility.minimum_noter_version
AsksNewer(c) ==
    /\ IsSome(c.engine)
    /\ IsSemver(MinimumOf(c))
    /\ VersionRank(MinimumOf(c)) > VersionRank(current_version)
AskingNewer(name) ==
    {i \in DOMAIN Loaded.value :
        Loaded.value[i].metadata.name = name /\ AsksNewer(Loaded.value[i])}
CompatibilityIssues == {k \in DOMAIN IssueList : IssueList[k].category = "compatibility"}
CompatibilityNaming(name) ==
    {k \in CompatibilityIssues :
        SubSeq(IssueList[k].message, 1, 1 + Len(name)) = Lit("Template '") \o name}

C21_PreReleaseCase ==
    /\ SystemValidated /\ Loaded.ok
    /\ current_version = <<"0", ".", "6", ".", "0">>
    /\ Len(Loaded.value) = 1
    /\ IsSome(Loaded.value[1].engine)
    /\ MinimumOf(Loaded.value[1]) = <<"0", ".", "6", ".", "0", "-", "1">>
    /\ CompatibilityIssues = {}

\* C21 case: a minimum that is no semver version ("1.0") is compared with
\* nothing, and nothing is reported.
C21_NotSemverCase ==
    /\ SystemValidated /\ Loaded.ok
    /\ Len(Loaded.value) = 1
    /\ IsSome(Loaded.value[1].engine)
    /\ MinimumOf(Loaded.value[1]) = ShortVersion
    /\ CompatibilityIssues = {}

\* The issues located at the course id of the context.
CourseIdIssues ==
    {k \in DOMAIN IssueList : IssueList[k].location = Some(Lit("context.course_id"))}

\* C22: validate_template_context reports an empty course id, and reports
\* it as a Warning.
C22_EmptyCourseIdIsAWarning ==
    (ContextValidated /\ TrimIsEmpty(context.course_id)) =>
        /\ CourseIdIssues /= {}
        /\ \A k \in CourseIdIssues : IssueList[k].severity = Warning

\* C22, as the code has it: an empty course id is reported once, as an
\* Error with the message "Course ID is required"; a course id that is not
\* empty is not reported.
C22_EmptyCourseIdIsAnError ==
    ContextValidated =>
        /\ TrimIsEmpty(context.course_id) <=> CourseIdIssues /= {}
        /\ Cardinality(CourseIdIssues) <= 1
        /\ \A k \in CourseIdIssues :
             /\ IssueList[k].severity = Error
             /\ IssueList[k].message = Lit("Course ID is required")

\* C22 case: a context whose only defect is its empty course id has one
\* issue, the Error.
C22_EmptyCourseIdCase ==
    /\ ContextValidated
    /\ context.course_id = << >>
    /\ Len(IssueList) = 1
    /\ CourseIdIssues = {1}
    /\ IssueList[1].severity = Error

\* The variants of the validated manifest that reference a definition, and
\* the Warnings that say of a definition that it has variants it does not
\* support.
Referencing(cfg, j) ==
    {k \in DOMAIN VariantsOf(cfg) : VariantsOf(cfg)[k].template = cfg.templates[j].name}
UnsupportedVariantWarnings(name) ==
    {k \in DOMAIN IssueList :
        /\ IssueList[k].severity = Warning
        /\ Len(IssueList[k].message) = 2 + Len(name)
        /\ SubSeq(IssueList[k].message, 1, 1 + Len(name)) = Lit("Template '") \o name
        /\ IssueList[k].message[Len(IssueList[k].message)]
             = "' has variants but doesn't support them"}

\* C23: validate_template_config warns about a definition exactly when
\* the definition has supports_variants = false and a variant of the
\* manifest references it.
C23_UnsupportedVariantWarned ==
    ConfigValidated =>
        \A j \in DOMAIN configs[1].templates :
            (~configs[1].templates[j].supports_variants /\ Referencing(configs[1], j) /= {})
                <=> UnsupportedVariantWarnings(configs[1].templates[j].name) /= {}

\* The manifest with supports_variants = true in every definition.
AllSupporting(cfg) ==
    [cfg EXCEPT !.templates =
        [j \in DOMAIN cfg.templates |-> [cfg.templates[j] EXCEPT !.supports_variants = TRUE]]]

\* C23, as the code has it: the issues of a manifest do not depend on
\* supports_variants; validating the manifest gives the issues it gives
\* with supports_variants = true everywhere.
C23_SupportsVariantsIgnored ==
    ConfigValidated =>
        Unwrap(issues) \in ValidateTemplateConfig(AllSupporting(configs[1]))

\* C23 case: the definition report has supports_variants = false, a variant
\* references it, and no issue is a warning about the two.
C23_UnsupportedVariantCase ==
    /\ ConfigValidated
    /\ \E j \in DOMAIN configs[1].templates :
         /\ configs[1].templates[j].name = Lit("report")
         /\ ~configs[1].templates[j].supports_variants
         /\ Referencing(configs[1], j) /= {}
    /\ UnsupportedVariantWarnings(Lit("report")) = {}
    /\ \A k \in DOMAIN IssueList :
         IssueList[k].severity = Warning => IssueList[k].category \in {"metadata", "template", "variant", "course_mapping", "engine"}

\* The two digits of a year: the tens and the units of its last two digits.
TwoDigits(y) == <<ToString((y % 100) \div 10), ToString(y % 10)>>
Formatted == semester /= None
ShortToken == <<"{", "y", "y", "}">>

\* C24: the long forms put the year and the season name in their order
\* with one space between; the short form is the season letter and the year
\* as exactly two digits.
C24_SemesterForms ==
    Formatted =>
        /\ semester_format.kind = "YearSeason" =>
             Unwrap(semester) = DisplayI32(year) \o <<" ">> \o SeasonName(is_spring)
        /\ semester_format.kind = "SeasonYear" =>
             Unwrap(semester) = SeasonName(is_spring) \o <<" ">> \o DisplayI32(year)
        /\ semester_format.kind = "ShortForm" =>
             Unwrap(semester) = SeasonLetter(is_spring) \o TwoDigits(year)
        /\ (semester_format.kind = "Custom"
            /\ semester_format.format = <<"{", "s", "}">> \o ShortToken) =>
             Unwrap(semester) = SeasonLetter(is_spring) \o TwoDigits(year)

\* C24, as the code has it: the long forms are as stated, and the
\* short-year token of a custom pattern is two digits; the short form
\* has two digits only from year 10 of a century on, and one digit
\* before.
C24_ShortFormUnpadded ==
    Formatted =>
        /\ semester_format.kind = "YearSeason" =>
             Unwrap(semester) = DisplayI32(year) \o <<" ">> \o SeasonName(is_spring)
        /\ semester_format.kind = "SeasonYear" =>
             Unwrap(semester) = SeasonName(is_spring) \o <<" ">> \o DisplayI32(year)
        /\ semester_format.kind = "ShortForm" =>
             Unwrap(semester)
               = SeasonLetter(is_spring)
                 \o (IF year % 100 < 10 THEN <<ToString(year % 10)>> ELSE TwoDigits(year))
        /\ (semester_format.kind = "Custom"
            /\ semester_format.format = ShortToken \o ShortToken) =>
             Unwrap(semester) = TwoDigits(year) \o TwoDigits(year)
        /\ (semester_format.kind = "Custom"
            /\ semester_format.format = <<"{", "s", "}">> \o ShortToken) =>
             Unwrap(semester) = SeasonLetter(is_spring) \o TwoDigits(year)

\* C24 case: the short form of spring 2005 is "S5".
C24_ShortForm2005Case ==
    /\ Formatted
    /\ semester_format.kind = "ShortForm" /\ year = 2005 /\ is_spring
    /\ Unwrap(semester) = <<"S", "5">>

\* C24 case: the custom pattern "{s}{yy}" of spring 2005 is "S05".
C24_CustomShortYearCase ==
    /\ Formatted
    /\ semester_format.kind = "Custom"
    /\ semester_format.format = <<"{", "s", "}">> \o ShortToken
    /\ year = 2005 /\ is_spring
    /\ Unwrap(semester) = <<"S", "0", "5">>

\* The manifests in the package roots on disk: those directly in an
\* immediate subdirectory of the packages directory and those one level
\* below one.
ManifestsOnDisk(d) ==
    {d.entries[i].manifest : i \in ManifestDirs(d.entries)}
    \cup UNION {{d.entries[i].versions[j].manifest :
                   j \in ManifestDirs(d.entries[i].versions)} :
                i \in {k \in DOMAIN d.entries : d.entries[k].is_dir}}
CorruptOnDisk(d) == CorruptManifest \in ManifestsOnDisk(d)

\* C25: whatever was installed or removed before it, and whatever an
\* earlier call returned, a call of load_template_configs returns the
\* manifests of the package roots on disk at the call, as many as there are
\* roots, or the error of a manifest on disk that does not parse.
C25_LoadReflectsDisk ==
    load_result /= None =>
        /\ Unwrap(load_result).ok <=> ~CorruptOnDisk(disk)
        /\ Unwrap(load_result).ok =>
             /\ {ValidManifest(c) : c \in Range(Unwrap(load_result).value)}
                  = ManifestsOnDisk(disk)
             /\ Len(Unwrap(load_result).value)
                  = Cardinality(TopLevelRoots(disk) \cup VersionRoots(disk))

\* C25 witness: an earlier call returned one manifest, a package was then
\* installed, and the present call returns two.
C25_Witness ==
    /\ load_result /= None /\ earlier_result /= None
    /\ Unwrap(earlier_result).ok /\ Unwrap(load_result).ok
    /\ Len(Unwrap(earlier_result).value) = 1
    /\ Len(Unwrap(load_result).value) = 2
    /\ Cardinality(ManifestsOnDisk(disk)) = 2

\* C25 case: an earlier call returned a manifest, its package was then
\* removed, and the present call returns none.
C25_RemovedCase ==
    /\ load_result /= None /\ earlier_result /= None
    /\ Unwrap(earlier_result).ok /\ Unwrap(load_result).ok
    /\ Unwrap(earlier_result).value /= << >>
    /\ Unwrap(load_result).value = << >>
    /\ ManifestsOnDisk(disk) = {}

\* The course types a call of resolve_course_type on the present inputs can
\* return.
PossibleTypes == {r.value : r \in ResolveCourseType(configs, course_id, fallback)}

\* C26: what a call of resolve_course_type returned is what every call on
\* the same manifests, course id and fallback returns.
C26_ResolveIsDeterministic ==
    resolved /= None => PossibleTypes = {Unwrap(resolved).value}

\* The course id is ambiguous in a manifest when it is no key of the mapping
\* and patterns that match it map to different course types.
Ambiguous(cfg, id) ==
    /\ cfg.course_mapping /= None
    /\ id \notin DOMAIN Unwrap(cfg.course_mapping)
    /\ Cardinality(MappedTypes(cfg, MatchingKeys(cfg, id))) > 1

\* C26, as the code has it: the returned type is the only possible one
\* exactly when the course id is not ambiguous in the first matching
\* manifest; when it is, each of the types its patterns give can be
\* returned.
C26_DeterministicUnlessAmbiguous ==
    resolved /= None =>
        IF MatchingManifests /= {} /\ Ambiguous(configs[FirstMatchingManifest], course_id)
        THEN PossibleTypes
               = MappedTypes(configs[FirstMatchingManifest],
                             MatchingKeys(configs[FirstMatchingManifest], course_id))
        ELSE PossibleTypes = {Unwrap(resolved).value}

\* C26 case: one manifest maps "01xxx" to math and "010xx" to physics; the
\* call for "01005" returned physics, and a call on the same inputs can
\* return math.
C26_TwoPatternsCase ==
    /\ resolved /= None
    /\ course_id = Id01005
    /\ Len(configs) = 1
    /\ configs[1].course_mapping /= None
    /\ DOMAIN Unwrap(configs[1].course_mapping) = {Pat01xxx, Pat010xx}
    /\ Unwrap(configs[1].course_mapping)[Pat01xxx] = Lit("math")
    /\ Unwrap(configs[1].course_mapping)[Pat010xx] = Lit("physics")
    /\ Unwrap(resolved).value = Lit("physics")
    /\ Lit("math") \in PossibleTypes

\* The builder has built: its result, and the name segment between
\* "{date}-{course_id}-" and ".typ" of the filename it produced.
Built == filename /= None /\ context /= << >> /\ custom_title = None /\ course_id = << >>
BuiltFilename == Unwrap(filename).value.filename
FilenamePrefix == date \o <<"-">> \o context.course_id \o <<"-">>
BuiltSegment ==
    SubSeq(BuiltFilename, Len(FilenamePrefix) + 1, Len(BuiltFilename) - Len(DotTyp))

\* C27: for an assignment whose title is empty or sanitizes to the empty
\* string, build_with_filename names the file
\* {date}-{course_id}-assignment.typ; the name segment of a built
\* filename is never empty.
C27_UntitledAssignmentFilename ==
    Built =>
        /\ Unwrap(filename).ok
        /\ (template_type.kind = "Assignment" /\ SanitizeFilename(context.title) = << >>) =>
             BuiltFilename = FilenamePrefix \o <<"a", "s", "s", "i", "g", "n", "m", "e", "n", "t">>
                             \o DotTyp
        /\ BuiltSegment /= << >>

\* C27, as the code has it: the builder always passes its title, so the
\* segment of an assignment is the sanitized title, empty when the title
\* is; the segment of a lecture is lecture and that of a custom type its
\* sanitized name.
C27_BuilderFilenameShape ==
    Built =>
        /\ Unwrap(filename).ok
        /\ BuiltFilename = FilenamePrefix \o BuiltSegment \o DotTyp
        /\ BuiltSegment =
             (CASE template_type.kind = "Lecture" -> <<"l", "e", "c", "t", "u", "r", "e">>
                [] template_type.kind = "Assignment" -> SanitizeFilename(context.title)
                [] template_type.kind = "Custom" -> SanitizeFilename(template_type.name))

\* C27 case: an assignment built without a call of with_title is named
\* "2025-09-01-02101-.typ".
C27_UntitledCase ==
    /\ Built
    /\ template_type.kind = "Assignment"
    /\ context.title = << >>
    /\ BuiltFilename = <<"2", "0", "2", "5", "-", "0", "9", "-", "0", "1", "-",
                         "0", "2", "1", "0", "1", "-", ".", "t", "y", "p">>

\* --- create_assignment keeps the content of an existing assignment file ---
AssignmentCalled == IsSome(last_call) /\ Unwrap(last_call).operation = "create_assignment"
AssignmentPath == <<Unwrap(last_call).course_id, "assignments", SanitizeFilename(Unwrap(last_call).title) \o DotTyp>>
AssignmentBackupPath == WithExtension(AssignmentPath, TypBak)
AssignmentExisted == AssignmentCalled /\ AssignmentPath \in DOMAIN Unwrap(last_call).before.files
CourseRefused ==
    \/ Len(Unwrap(last_call).course_id) /= 5
    \/ \E i \in DOMAIN Unwrap(last_call).course_id : Unwrap(last_call).course_id[i] \notin Digits
    \/ Unwrap(last_call).course_id \notin DOMAIN user_config.courses

\* C28: create_assignment never loses the content an existing assignment file
\* had just before the call.  With create_backups off the call fails and
\* the files are as before; with create_backups on the file still has that
\* content or the .typ.bak file beside it has it; no other file that
\* existed changes; and for an invalid or unregistered course id the call
\* fails with no directory and no file created.
C28_ExistingAssignmentKept ==
    AssignmentCalled =>
      LET before == Unwrap(last_call).before
          result == Unwrap(last_call).result
      IN  /\ CourseRefused => ~result.ok /\ notes_fs = before
          /\ \A p \in DOMAIN before.files :
               p \notin {AssignmentPath, AssignmentBackupPath} =>
                 p \in DOMAIN notes_fs.files /\ notes_fs.files[p] = before.files[p]
          /\ AssignmentExisted /\ ~user_config.note_preferences.create_backups =>
               ~result.ok /\ notes_fs.files = before.files
          /\ AssignmentExisted /\ user_config.note_preferences.create_backups =>
               \/ notes_fs.files[AssignmentPath] = before.files[AssignmentPath]
               \/ /\ AssignmentBackupPath \in DOMAIN notes_fs.files
                  /\ notes_fs.files[AssignmentBackupPath] = before.files[AssignmentPath]

\* An existing assignment was overwritten and its content is in the backup.
C28_Witness ==
    /\ AssignmentExisted
    /\ user_config.note_preferences.create_backups
    /\ Unwrap(last_call).result.ok
    /\ notes_fs.files[AssignmentPath] /= UserContent
    /\ Unwrap(last_call).before.files[AssignmentPath] = UserContent
    /\ notes_fs.files[AssignmentBackupPath] = UserContent
\* With backups off the call on an existing file was refused.
C28_RefusedCase ==
    /\ AssignmentExisted
    /\ ~user_config.note_preferences.create_backups
    /\ ~Unwrap(last_call).result.ok
    /\ notes_fs.files[AssignmentPath] = Unwrap(last_call).before.files[AssignmentPath]
\* A call for an unregistered course on an empty notes directory.
C28_UnregisteredCase ==
    /\ AssignmentCalled
    /\ Unwrap(last_call).course_id = Id01005
    /\ notes_fs = EmptyNotesDir
\* The write failed after the file was truncated, and the backup has the content.
C28_FailedWriteCase ==
    /\ AssignmentExisted
    /\ ~Unwrap(last_call).result.ok
    /\ notes_fs.files[AssignmentPath] = << >>
    /\ Unwrap(last_call).before.files[AssignmentPath] /= << >>

\* --- create_note never writes over an existing note ---
NoteCalled == IsSome(last_call) /\ Unwrap(last_call).operation = "create_note"
NoteCalledPath == NoteFilePath(Unwrap(last_call).course_id, Unwrap(last_call).title)

\* C29: create_note never overwrites an existing note.  After any sequence
\* of calls every note has the content it had when it was first there (the
\* content it had before the first call, or the content written by the call
\* that created it), and a call made when the note exists leaves all files as
\* they were.
C29_NoteNeverOverwritten ==
    NoteCalled =>
      /\ \A p \in DOMAIN Unwrap(last_call).original :
           p \in DOMAIN notes_fs.files /\ notes_fs.files[p] = Unwrap(last_call).original[p]
      /\ NoteCalledPath \in DOMAIN Unwrap(last_call).before.files =>
           notes_fs.files = Unwrap(last_call).before.files

\* A later call for an existing note, under a configuration that would give
\* it another content, left what the user wrote.
C29_Witness ==
    /\ NoteCalled
    /\ NoteCalledPath = ExistingNotePath
    /\ Unwrap(last_call).result.ok
    /\ ExistingNotePath \in DOMAIN Unwrap(last_call).before.files
    /\ Unwrap(last_call).before.files[ExistingNotePath] = UserNote
    /\ notes_fs.files[ExistingNotePath] = UserNote
\* A note a first call created is still as created after a call under a
\* configuration with another title.
C29_SecondCallCase ==
    /\ NoteCalled
    /\ NoteCalledPath \in DOMAIN Unwrap(last_call).before.files
    /\ Unwrap(last_call).before.files[NoteCalledPath] =
         NoteContent(RegisteredId, CHOOSE c \in NoteConfigs :
                                     ~c.note_preferences.include_date_in_title
                                     /\ c.note_preferences.auto_open,
                     Unwrap(last_call).title, Lit("2025 Fall"))
    /\ user_config.note_preferences.include_date_in_title

\* --- the matches of search_in_directory ---
Searched == IsSome(search_results) /\ Unwrap(search_results).ok
Matches == Unwrap(search_results).value
EqualToQuery(piece) ==
    IF search_options.case_sensitive
    THEN piece = search_query
    ELSE ToLowercase(piece) = ToLowercase(search_query)
\* The bytes start..end of text are whole chars that make up the query.
Delimited(text, start, end) ==
    \E i \in 0..Len(text) : \E j \in i..Len(text) :
       /\ StrLen(SubSeq(text, 1, i)) = start
       /\ StrLen(SubSeq(text, 1, j)) = end
       /\ EqualToQuery(SubSeq(text, i + 1, j))
\* The entries of the directory at a path, and the line of a file a match names.
RECURSIVE EntryAt(_, _)
EntryAt(entries, path) ==
    LET e == entries[CHOOSE i \in DOMAIN entries : entries[i].name = Head(path)]
    IN  IF Len(path) = 1 THEN e ELSE EntryAt(e.entries, Tail(path))
LineOf(m) == Lines(EntryAt(search_dir.entries, m.file_path).content)[m.line_number]

\* C30: every SearchMatch returned by search_in_directory has match_start
\* and match_end that delimit an occurrence of the query inside its
\* line_content (up to letter case when the search is case-insensitive), with
\* match_end <= the length of line_content; and at most max_results matches
\* are returned.
C30_MatchDelimitsQueryInLineContent ==
    Searched =>
      /\ Len(Matches) <= search_options.max_results
      /\ \A k \in DOMAIN Matches :
           /\ Matches[k].match_end <= StrLen(Matches[k].line_content)
           /\ Delimited(Matches[k].line_content, Matches[k].match_start,
                        Matches[k].match_end)

\* What the code does give: at most max_results matches, each with offsets
\* that delimit the query in the line as it is in the file; line_content is
\* that line trimmed, so the offsets fit line_content when the line starts
\* with no blank and the match ends before its trailing blanks.
C30_MatchDelimitsQueryInFileLine ==
    Searched =>
      /\ Len(Matches) <= search_options.max_results
      /\ \A k \in DOMAIN Matches :
           /\ Matches[k].line_content = Trim(LineOf(Matches[k]))
           /\ Delimited(LineOf(Matches[k]), Matches[k].match_start, Matches[k].match_end)
           /\ (LineOf(Matches[k]) = Matches[k].line_content =>
                 /\ Matches[k].match_end <= StrLen(Matches[k].line_content)
                 /\ Delimited(Matches[k].line_content, Matches[k].match_start,
                              Matches[k].match_end))

\* A match in an indented line: its match_end is beyond its line_content.
C30_IndentedLineCase ==
    /\ Searched
    /\ \E k \in DOMAIN Matches :
         /\ Matches[k].line_content = <<"a", "b">>
         /\ Matches[k].match_start = 2
         /\ Matches[k].match_end = 4
\* More matches were found than max_results, and max_results were returned.
C30_TruncatedCase ==
    /\ Searched
    /\ search_options.max_results > 0
    /\ Len(Matches) = search_options.max_results
    /\ Len(SearchRecursive(search_dir, << >>, search_query, search_options, << >>).value)
         > search_options.max_results

====
